---- MODULE Spec2Model ----
(***************************************************************************)
(* Order-creation pipeline of the order service (Go) and the inventory     *)
(* reconciler of the product service (NestJS).                             *)
(*                                                                         *)
(* Spec        : concurrent OrderService.CreateOrder calls on one service  *)
(*               instance: validation goroutine, singleflight, local and   *)
(*               Redis tiers, DB and event worker pools, publish goroutine.*)
(* ProductSpec : ProductController.handleOrderCreated handlers running     *)
(*               interleaved over one product repository.                  *)
(* ReadSpec    : CreateOrder calls together with GetOrderById and          *)
(*               GetOrderByProductId reads of the orders table.            *)
(* HandlerSpec : the HTTP handlers POST /orders and                        *)
(*               GET /orders/product/:productId with the listing cache.    *)
(* FindOneSpec : ProductService.findOne reads through the product cache.   *)
(* CatalogSpec : findOne reads interleaved with handleOrderCreated.        *)
(* TierSpec    : CreateOrder calls over a Redis that already holds values. *)
(* CancelSpec  : CreateOrder calls whose contexts are cancelled while they *)
(*               wait.                                                     *)
(* BatchSpec   : CreateOrder calls for one product, within the DB pool's   *)
(*               capacity.                                                 *)
(* DeadlineSpec: GetOrderById and GetOrderByProductId calls whose queries   *)
(*               take time, next to one CreateOrder call.                  *)
(* LiveSpec    : CreateOrder calls under the fairness that the scheduler   *)
(*               and the deadlines in the code give.                       *)
(***************************************************************************)
EXTENDS Integers, Sequences, FiniteSets

\* ------------------------------------------------------------------ bounds
NumCalls == 2        \* CreateOrder calls in one behaviour
DbCap == 1           \* cap(dbWorkers), numCPU*20 in the program
EvCap == 1           \* cap(eventWorkers), numCPU*30 in the program
NumHandlers == 2     \* order.created deliveries handled in one behaviour
MaxOrderId == 2      \* order identifiers carried by the deliveries
MaxQty == 2          \* largest qty a product is created with
NumPosts == 1        \* POST /orders requests in one behaviour
NumListings == 2     \* GET /orders/product/:productId requests in one behaviour
NumReaders == 2      \* GET /products/:id requests in one behaviour

Calls == 1..NumCalls
ProductIds == {1, 2}
Prices == {1000}

\* the catalog's stock of a product that exists: product 1 is in stock,
\* product 2 is out of stock
CatalogQty(pid) == IF pid = 1 THEN 5 ELSE 0

\* ------------------------------------------------------- Go values
\* error values: a chain of messages, outermost first; nil is the empty chain
NoErr == <<>>
Wrap(prefix, err) == <<prefix>> \o err
Contains(err, text) == \E i \in 1..Len(err) : err[i] = text

\* interface{} values. dyn is the dynamic type; an interface holding a nil
\* *ProductInfo has a dynamic type and so is not the nil interface.
NilIface == [dyn |-> "nil", null |-> TRUE, qty |-> 0]
PtrIface(isNull, q) == [dyn |-> "*ProductInfo", null |-> isNull, qty |-> q]
MapIface(q) == [dyn |-> "map", null |-> FALSE, qty |-> q]
StrIface == [dyn |-> "string", null |-> FALSE, qty |-> 0]
IsNilIface(v) == v.dyn = "nil"

\* what ProductClient.GetProductById can return
ClientOutcomes(pid) ==
    {[kind |-> "found", qty |-> CatalogQty(pid)],
     [kind |-> "absent", qty |-> 0],
     [kind |-> "error", qty |-> 0]}

NoEntry == [present |-> FALSE, product |-> NilIface, expired |-> FALSE]
\* time.Time values: whole milliseconds and the microseconds past them
NoTime == [ms |-> 0, us |-> 0]

\* time.Now() as the c-th call to enter reads it at line 150: later calls
\* read later instants, none of them on a millisecond boundary
Clock(c) == [ms |-> c, us |-> 250 * c]

\* a time.Time as the created_at column (DATETIME(3), the column AutoMigrate
\* makes for a time.Time field) holds it: rounded to the millisecond
DbTime(t) == [ms |-> IF t.us >= 500 THEN t.ms + 1 ELSE t.ms, us |-> 0]

NoOrder == [ID |-> 0, ProductId |-> 0, TotalPrice |-> 0, Status |-> "none",
            CreatedAt |-> NoTime]

\* the row of the orders table that holds the order
DbRow(o) == [o EXCEPT !.CreatedAt = DbTime(@)]
NoResult == [order |-> NoOrder, err |-> NoErr]
NoArgs == [productId |-> 0, totalPrice |-> 0]

Handlers == 1..NumHandlers
OrderIds == 1..MaxOrderId
NoProduct == [exists |-> FALSE, qty |-> 0]
NoEvent == [orderId |-> 0, productId |-> 0]

VARIABLES
    pc,             \* CreateOrder call -> position of its calling goroutine
    args,           \* CreateOrder call -> (productId, totalPrice)
    order,          \* CreateOrder call -> the *domain.Order it built
    result,         \* CreateOrder call -> what it returned
    gpc,            \* position of the call's validation goroutine
    gres,           \* what sf.Do returned to the validation goroutine
    productChan,    \* call -> buffered channel (capacity 1)
    productErrChan, \* call -> buffered channel (capacity 1)
    localCache,     \* u.localCache: product id -> cachedProduct
    redisEnabled,   \* u.redisClient != nil
    redisKV,        \* Redis: key product:<id> -> value
    redisSets,      \* asynchronous Redis writes not yet performed
    sf,             \* u.sf: keys with a call in flight
    clientInFlight, \* product id -> GetProductById calls executing
    clientCalls,    \* product id -> GetProductById calls made so far
    dbWorkers,      \* len(u.dbWorkers)
    eventWorkers,   \* len(u.eventWorkers)
    nextId,         \* next auto-increment id of the orders table
    repoOrders,     \* rows of the orders table
    saveLog,        \* call -> its repo.Save invocations, each with its outcome
    epc,            \* position of the call's publish goroutine
    pubLog,         \* call -> Publish invocations of its publish goroutine
    stats,          \* u.stats
    \* ---- product service
    productRepo,    \* products table: id -> qty, or NoProduct
    hpc,            \* handler -> position in handleOrderCreated
    hEvent,         \* handler -> the order.created payload it handles
    hProduct,       \* handler -> entity loaded by decrementQty
    emitted,        \* handler -> events it emitted through PRODUCT_PUBLISHER
    initialQty,     \* product id -> qty the product was created with
    decByOrder,     \* orderId -> by how much the saves for it lowered the stored qty
    \* ---- order service, read path
    readRes,        \* the last GetOrderById / GetOrderByProductId call and its return
    \* ---- order service, HTTP handlers
    listCache,      \* Redis: key orders:product<id> -> cached listing
    post,           \* CreateOrder call -> response of its POST /orders request
    lpc,            \* listing request -> position in Handler.GetOrderByProduct
    lArg,           \* listing request -> productId
    lOrders,        \* listing request -> orders the service returned to it
    lResp,          \* listing request -> its response
    lAfter,         \* listing request -> ids of the product's orders whose
                    \* create response had been sent when it was issued
    \* ---- product service, GET /products/:id
    productCache,   \* cacheManager: key product:<id> -> cached product
    rpc,            \* read request -> position in ProductService.findOne
    rId,            \* read request -> id
    rIssue,         \* read request -> the products table's row when it was issued
    rLog,           \* read request -> its cacheManager and productRepo calls
    rResult,        \* read request -> what findOne returned or raised
    \* ---- order service, the callers' contexts
    cancelled,      \* CreateOrder call -> its ctx has been cancelled
    qpc,            \* position of the read call in GetOrderById / GetOrderByProductId
    qArg,           \* the read call in progress: method and argument
    qExpired,       \* the deadline of the read call's ctx has passed
    \* ---- order service, pool sizes
    dbCap           \* cap(u.dbWorkers), fixed by NewOrderService

orderVars ==
    <<pc, args, order, result, gpc, gres, productChan, productErrChan,
      localCache, redisEnabled, redisKV, redisSets, sf, clientInFlight,
      clientCalls, dbWorkers, eventWorkers, nextId, repoOrders, saveLog,
      epc, pubLog, stats>>
productVars == <<productRepo, hpc, hEvent, hProduct, emitted, initialQty, decByOrder>>
readVars == <<readRes>>
httpVars == <<listCache, post, lpc, lArg, lOrders, lResp, lAfter>>
catalogVars == <<productCache, rpc, rId, rIssue, rLog, rResult>>
ctxVars == <<cancelled, qpc, qArg, qExpired>>
poolVars == <<dbCap>>
vars == <<orderVars, productVars, readVars, httpVars, catalogVars, ctxVars, poolVars>>

\* ------------------------------------------------------------ ServiceStats
IncrementTotalRequests(s) == [s EXCEPT !.TotalRequests = @ + 1]
IncrementSuccessfulOrders(s) == [s EXCEPT !.SuccessfulOrders = @ + 1]
IncrementFailedOrders(s) == [s EXCEPT !.FailedOrders = @ + 1]
IncrementCacheHits(s) == [s EXCEPT !.CacheHits = @ + 1]
IncrementCacheMisses(s) == [s EXCEPT !.CacheMisses = @ + 1]

\* ------------------------------------------------------------ local cache
\* isExpired of an entry that never expires
isExpiredNever(cp) == FALSE

\* cachedProduct.isExpired
isExpired(cp) == cp.expired

\* LocalValid of a cache whose entries are never found
LocalValidNever(pid) == FALSE

\* the Load / type assertion / isExpired test of lines 212-213 and 228-229
LocalValid(pid) == localCache[pid].present /\ ~isExpired(localCache[pid])

\* u.localCache.Store(productId, &cachedProduct{product, now + 30 s})
LocalStore(cache, pid, prod) ==
    [cache EXCEPT ![pid] = [present |-> TRUE, product |-> prod, expired |-> FALSE]]

\* --------------------------------------------------------------- Init
InitService ==
    /\ pc = [c \in Calls |-> "idle"]
    /\ args = [c \in Calls |-> NoArgs]
    /\ order = [c \in Calls |-> NoOrder]
    /\ result = [c \in Calls |-> NoResult]
    /\ gpc = [c \in Calls |-> "none"]
    /\ gres = [c \in Calls |-> [val |-> NilIface, err |-> NoErr]]
    /\ productChan = [c \in Calls |-> <<>>]
    /\ productErrChan = [c \in Calls |-> <<>>]
    /\ localCache = [p \in ProductIds |-> NoEntry]
    /\ redisKV = [p \in ProductIds |-> [kind |-> "absent", qty |-> 0]]
    /\ redisSets = {}
    /\ sf = [p \in ProductIds |-> FALSE]
    /\ clientInFlight = [p \in ProductIds |-> 0]
    /\ clientCalls = [p \in ProductIds |-> 0]
    /\ dbWorkers = 0
    /\ eventWorkers = 0
    /\ saveLog = [c \in Calls |-> <<>>]
    /\ epc = [c \in Calls |-> "none"]
    /\ pubLog = [c \in Calls |-> <<>>]
    /\ stats = [TotalRequests |-> 0, SuccessfulOrders |-> 0, FailedOrders |-> 0,
                CacheHits |-> 0, CacheMisses |-> 0]

\* an empty orders table
InitStore ==
    /\ nextId = 1
    /\ repoOrders = {}

\* no caller's context is cancelled
\* the DB worker pool has its capacity
InitPool == dbCap = DbCap

InitCtx ==
    /\ cancelled = [c \in Calls |-> FALSE]
    /\ qpc = "idle"
    /\ qArg = [method |-> "none", arg |-> 0]
    /\ qExpired = FALSE

\* a service over an empty table, with or without a Redis client
InitOrder ==
    /\ InitService
    /\ redisEnabled \in BOOLEAN
    /\ InitStore
    /\ InitCtx /\ InitPool

\* ------------------------------------------------- OrderService.CreateOrder
\* NewOrder that leaves Status at its zero value
NewOrderNoStatus(productId, totalPrice, now) ==
    [ID |-> 0, ProductId |-> productId, TotalPrice |-> totalPrice, Status |-> "",
     CreatedAt |-> now]

\* NewOrder with the status of a settled order
NewOrderConfirmed(productId, totalPrice, now) ==
    [ID |-> 0, ProductId |-> productId, TotalPrice |-> totalPrice, Status |-> "confirmed",
     CreatedAt |-> now]

\* the order object built at lines 146-151
NewOrder(productId, totalPrice, now) ==
    [ID |-> 0, ProductId |-> productId, TotalPrice |-> totalPrice, Status |-> "pending",
     CreatedAt |-> now]

\* ReturnError without IncrementFailedOrders
ReturnErrorUncounted(c, err, heldDb) ==
    /\ result' = [result EXCEPT ![c] = [order |-> NoOrder, err |-> err]]
    /\ pc' = [pc EXCEPT ![c] = "done"]
    /\ dbWorkers' = IF heldDb THEN dbWorkers - 1 ELSE dbWorkers
    /\ UNCHANGED stats

\* ReturnError without the deferred release of the DB worker slot
ReturnErrorKeepingSlot(c, err, heldDb) ==
    /\ stats' = IncrementFailedOrders(stats)
    /\ result' = [result EXCEPT ![c] = [order |-> NoOrder, err |-> err]]
    /\ pc' = [pc EXCEPT ![c] = "done"]
    /\ dbWorkers' = dbWorkers

\* an error return of CreateOrder: IncrementFailedOrders, (nil, err); the
\* deferred release of the DB worker slot runs when the slot was taken
ReturnError(c, err, heldDb) ==
    /\ stats' = IncrementFailedOrders(stats)
    /\ result' = [result EXCEPT ![c] = [order |-> NoOrder, err |-> err]]
    /\ pc' = [pc EXCEPT ![c] = "done"]
    /\ dbWorkers' = IF heldDb THEN dbWorkers - 1 ELSE dbWorkers

\* lines 117-151: count the request, start the validation goroutine, build
\* the order, reach the first select. Calls are numbered in the order they
\* enter (the numbers are labels only).
CreateOrder(c, productId, totalPrice) ==
    /\ pc[c] = "idle"
    /\ \A d \in Calls : d < c => pc[d] # "idle"
    /\ stats' = IncrementTotalRequests(stats)
    /\ args' = [args EXCEPT ![c] = [productId |-> productId, totalPrice |-> totalPrice]]
    /\ order' = [order EXCEPT ![c] = NewOrder(productId, totalPrice, Clock(c))]
    /\ gpc' = [gpc EXCEPT ![c] = "check"]
    /\ pc' = [pc EXCEPT ![c] = "waitValidation"]
    /\ UNCHANGED <<result, gres, productChan, productErrChan, localCache,
                   redisEnabled, redisKV, redisSets, sf, clientInFlight,
                   clientCalls, dbWorkers, eventWorkers, nextId, repoOrders,
                   saveLog, epc, pubLog>>
    /\ UNCHANGED <<productVars, readVars, httpVars, catalogVars, ctxVars, poolVars>>

\* lines 126-130 and 211-220: isProductValidCached and the goroutine's fast path
ValidateCached(c) ==
    /\ gpc[c] = "check"
    /\ IF LocalValid(args[c].productId)
       THEN /\ stats' = IncrementCacheHits(stats)
            /\ productChan' = [productChan EXCEPT ![c] = Append(@, StrIface)]
            /\ productErrChan' = [productErrChan EXCEPT ![c] = Append(@, NoErr)]
            /\ gpc' = [gpc EXCEPT ![c] = "done"]
       ELSE /\ stats' = IncrementCacheMisses(stats)
            /\ gpc' = [gpc EXCEPT ![c] = "sfDo"]
            /\ UNCHANGED <<productChan, productErrChan>>
    /\ UNCHANGED <<pc, args, order, result, gres, localCache, redisEnabled,
                   redisKV, redisSets, sf, clientInFlight, clientCalls,
                   dbWorkers, eventWorkers, nextId, repoOrders, saveLog,
                   epc, pubLog>>
    /\ UNCHANGED <<productVars, readVars, httpVars, catalogVars, ctxVars, poolVars>>

\* ------------------------------------- OrderService.getProductWithFastCache
\* InFlight of a group that never finds a key in flight
InFlightNever(pid) == FALSE

\* singleflight.Group.Do: a call for the key is in flight
InFlight(pid) == sf[pid]

\* the callers blocked in sf.Do on the key's in-flight call
Waiters(pid) == {w \in Calls : gpc[w] = "sfWait" /\ args[w].productId = pid}

\* the function given to sf.Do returns r: the key leaves the group, and the
\* caller that ran it and every caller that joined get r
FinishFlight(c, pid, r) ==
    /\ sf' = [sf EXCEPT ![pid] = FALSE]
    /\ gres' = [w \in Calls |-> IF w = c \/ w \in Waiters(pid) THEN r ELSE gres[w]]
    /\ gpc' = [w \in Calls |-> IF w = c \/ w \in Waiters(pid) THEN "sfGot" ELSE gpc[w]]

\* SfDo that goes to GetProductById before the Redis tier
SfDoOriginFirst(c) ==
    LET pid == args[c].productId IN
    /\ gpc[c] = "sfDo"
    /\ IF InFlight(pid)
       THEN /\ gpc' = [gpc EXCEPT ![c] = "sfWait"]
            /\ UNCHANGED <<gres, sf, clientInFlight, clientCalls>>
       ELSE IF LocalValid(pid)
       THEN /\ gres' = [gres EXCEPT ![c] = [val |-> localCache[pid].product, err |-> NoErr]]
            /\ gpc' = [gpc EXCEPT ![c] = "sfGot"]
            /\ UNCHANGED <<sf, clientInFlight, clientCalls>>
       ELSE /\ sf' = [sf EXCEPT ![pid] = TRUE]
            /\ gpc' = [gpc EXCEPT ![c] = "fnClient"]
            /\ clientInFlight' = [clientInFlight EXCEPT ![pid] = @ + 1]
            /\ clientCalls' = [clientCalls EXCEPT ![pid] = @ + 1]
            /\ UNCHANGED gres
    /\ UNCHANGED <<pc, args, order, result, productChan, productErrChan,
                   localCache, redisEnabled, redisKV, redisSets, dbWorkers,
                   eventWorkers, nextId, repoOrders, saveLog, epc, pubLog,
                   stats>>
    /\ UNCHANGED <<productVars, readVars, httpVars, catalogVars, ctxVars, poolVars>>

\* line 226: sf.Do; a caller that finds the key in flight joins it, any
\* other runs the function: level 1 (lines 228-232), then enters the Redis
\* GET (line 239) or, without a Redis client, GetProductById (line 257)
SfDo(c) ==
    LET pid == args[c].productId IN
    /\ gpc[c] = "sfDo"
    /\ IF InFlight(pid)
       THEN /\ gpc' = [gpc EXCEPT ![c] = "sfWait"]
            /\ UNCHANGED <<gres, sf, clientInFlight, clientCalls>>
       ELSE IF LocalValid(pid)
       THEN /\ gres' = [gres EXCEPT ![c] = [val |-> localCache[pid].product, err |-> NoErr]]
            /\ gpc' = [gpc EXCEPT ![c] = "sfGot"]
            /\ UNCHANGED <<sf, clientInFlight, clientCalls>>
       ELSE IF redisEnabled
       THEN /\ sf' = [sf EXCEPT ![pid] = TRUE]
            /\ gpc' = [gpc EXCEPT ![c] = "fnRedis"]
            /\ UNCHANGED <<gres, clientInFlight, clientCalls>>
       ELSE /\ sf' = [sf EXCEPT ![pid] = TRUE]
            /\ gpc' = [gpc EXCEPT ![c] = "fnClient"]
            /\ clientInFlight' = [clientInFlight EXCEPT ![pid] = @ + 1]
            /\ clientCalls' = [clientCalls EXCEPT ![pid] = @ + 1]
            /\ UNCHANGED gres
    /\ UNCHANGED <<pc, args, order, result, productChan, productErrChan,
                   localCache, redisEnabled, redisKV, redisSets, dbWorkers,
                   eventWorkers, nextId, repoOrders, saveLog, epc, pubLog,
                   stats>>
    /\ UNCHANGED <<productVars, readVars, httpVars, catalogVars, ctxVars, poolVars>>

\* lines 239-250: the Redis GET returns. A decodable value is stored in the
\* local tier and returned; a miss, a timeout (30 ms) or a value that does
\* not decode leads on to GetProductById (line 257)
RedisGetReturn(c, timedOut) ==
    LET pid == args[c].productId IN
    /\ gpc[c] = "fnRedis"
    /\ IF ~timedOut /\ redisKV[pid].kind = "json"
       THEN /\ localCache' = LocalStore(localCache, pid, MapIface(redisKV[pid].qty))
            /\ FinishFlight(c, pid, [val |-> MapIface(redisKV[pid].qty), err |-> NoErr])
            /\ UNCHANGED <<clientInFlight, clientCalls>>
       ELSE /\ gpc' = [gpc EXCEPT ![c] = "fnClient"]
            /\ clientInFlight' = [clientInFlight EXCEPT ![pid] = @ + 1]
            /\ clientCalls' = [clientCalls EXCEPT ![pid] = @ + 1]
            /\ UNCHANGED <<localCache, gres, sf>>
    /\ UNCHANGED <<pc, args, order, result, productChan, productErrChan,
                   redisEnabled, redisKV, redisSets, dbWorkers, eventWorkers,
                   nextId, repoOrders, saveLog, epc, pubLog, stats>>
    /\ UNCHANGED <<productVars, readVars, httpVars, catalogVars, ctxVars, poolVars>>

\* what the function given to sf.Do returns after GetProductById returned
\* out (lines 257-281): prod is a *ProductInfo, returned as interface{}
FetchResult(out) ==
    IF out.kind = "error"
    THEN [val |-> NilIface, err |-> Wrap("product service error", <<"transport error">>)]
    ELSE [val |-> PtrIface(out.kind = "absent", out.qty), err |-> NoErr]

\* ClientReturn that leaves the local Store to the goroutine of the Redis SET
ClientReturnNoLocalStore(c, out) ==
    LET pid == args[c].productId IN
    /\ gpc[c] = "fnClient"
    /\ clientInFlight' = [clientInFlight EXCEPT ![pid] = @ - 1]
    /\ redisSets' = IF out.kind = "found" /\ redisEnabled
                    THEN redisSets \cup {[pid |-> pid, qty |-> out.qty]}
                    ELSE redisSets
    /\ FinishFlight(c, pid, FetchResult(out))
    /\ UNCHANGED <<pc, args, order, result, productChan, productErrChan,
                   localCache, redisEnabled, redisKV, clientCalls, dbWorkers,
                   eventWorkers, nextId, repoOrders, saveLog, epc, pubLog, stats>>
    /\ UNCHANGED <<productVars, readVars, httpVars, catalogVars, ctxVars, poolVars>>

\* ClientReturn without the prod != nil test of line 262
ClientReturnCachingAll(c, out) ==
    LET pid == args[c].productId IN
    /\ gpc[c] = "fnClient"
    /\ clientInFlight' = [clientInFlight EXCEPT ![pid] = @ - 1]
    /\ IF out.kind # "error"
       THEN /\ localCache' = LocalStore(localCache, pid, PtrIface(out.kind = "absent", out.qty))
            /\ redisSets' = IF redisEnabled
                            THEN redisSets \cup {[pid |-> pid, qty |-> out.qty]}
                            ELSE redisSets
       ELSE UNCHANGED <<localCache, redisSets>>
    /\ FinishFlight(c, pid, FetchResult(out))
    /\ UNCHANGED <<pc, args, order, result, productChan, productErrChan,
                   redisEnabled, redisKV, clientCalls, dbWorkers, eventWorkers,
                   nextId, repoOrders, saveLog, epc, pubLog, stats>>
    /\ UNCHANGED <<productVars, readVars, httpVars, catalogVars, ctxVars, poolVars>>

\* lines 257-281: GetProductById returns; a product is stored in the local
\* tier at once and written to Redis by a goroutine of its own
ClientReturn(c, out) ==
    LET pid == args[c].productId IN
    /\ gpc[c] = "fnClient"
    /\ clientInFlight' = [clientInFlight EXCEPT ![pid] = @ - 1]
    /\ IF out.kind = "found"
       THEN /\ localCache' = LocalStore(localCache, pid, PtrIface(FALSE, out.qty))
            /\ redisSets' = IF redisEnabled
                            THEN redisSets \cup {[pid |-> pid, qty |-> out.qty]}
                            ELSE redisSets
       ELSE UNCHANGED <<localCache, redisSets>>
    /\ FinishFlight(c, pid, FetchResult(out))
    /\ UNCHANGED <<pc, args, order, result, productChan, productErrChan,
                   redisEnabled, redisKV, clientCalls, dbWorkers, eventWorkers,
                   nextId, repoOrders, saveLog, epc, pubLog, stats>>
    /\ UNCHANGED <<productVars, readVars, httpVars, catalogVars, ctxVars, poolVars>>

\* lines 271-277: the asynchronous Redis SET (100 ms deadline) ends
RedisSetDone(w, ok) ==
    /\ w \in redisSets
    /\ redisSets' = redisSets \ {w}
    /\ redisKV' = IF ok THEN [redisKV EXCEPT ![w.pid] = [kind |-> "json", qty |-> w.qty]]
                  ELSE redisKV
    /\ UNCHANGED <<pc, args, order, result, gpc, gres, productChan,
                   productErrChan, localCache, redisEnabled, sf, clientInFlight,
                   clientCalls, dbWorkers, eventWorkers, nextId, repoOrders,
                   saveLog, epc, pubLog, stats>>
    /\ UNCHANGED <<productVars, readVars, httpVars, catalogVars, ctxVars, poolVars>>

\* ProductMissing that also rejects a product with no stock
ProductMissingOrOutOfStock(val) == IsNilIface(val) \/ val.qty = 0

\* line 137: prod == nil on the interface{} that sf.Do returned
ProductMissing(val) == IsNilIface(val)

\* ReportValidation without the return statements of lines 135 and 139
ReportValidationNoReturn(c) ==
    /\ gpc[c] = "sfGot"
    /\ gpc' = [gpc EXCEPT ![c] = "done"]
    /\ IF gres[c].err # NoErr
       THEN /\ productErrChan' = [productErrChan EXCEPT ![c] =
                                     @ \o <<gres[c].err, <<"product not found">>, NoErr>>]
            /\ productChan' = [productChan EXCEPT ![c] = Append(@, gres[c].val)]
       ELSE IF ProductMissing(gres[c].val)
       THEN /\ productErrChan' = [productErrChan EXCEPT ![c] =
                                     @ \o <<(<<"product not found">>), NoErr>>]
            /\ productChan' = [productChan EXCEPT ![c] = Append(@, gres[c].val)]
       ELSE /\ productChan' = [productChan EXCEPT ![c] = Append(@, gres[c].val)]
            /\ productErrChan' = [productErrChan EXCEPT ![c] = Append(@, NoErr)]
    /\ UNCHANGED <<pc, args, order, result, gres, localCache, redisEnabled,
                   redisKV, redisSets, sf, clientInFlight, clientCalls,
                   dbWorkers, eventWorkers, nextId, repoOrders, saveLog,
                   epc, pubLog, stats>>
    /\ UNCHANGED <<productVars, readVars, httpVars, catalogVars, ctxVars, poolVars>>

\* lines 132-142: the validation goroutine reports what sf.Do returned
ReportValidation(c) ==
    /\ gpc[c] = "sfGot"
    /\ gpc' = [gpc EXCEPT ![c] = "done"]
    /\ IF gres[c].err # NoErr
       THEN /\ productErrChan' = [productErrChan EXCEPT ![c] = Append(@, gres[c].err)]
            /\ UNCHANGED productChan
       ELSE IF ProductMissing(gres[c].val)
       THEN /\ productErrChan' = [productErrChan EXCEPT ![c] = Append(@, <<"product not found">>)]
            /\ UNCHANGED productChan
       ELSE /\ productChan' = [productChan EXCEPT ![c] = Append(@, gres[c].val)]
            /\ productErrChan' = [productErrChan EXCEPT ![c] = Append(@, NoErr)]
    /\ UNCHANGED <<pc, args, order, result, gres, localCache, redisEnabled,
                   redisKV, redisSets, sf, clientInFlight, clientCalls,
                   dbWorkers, eventWorkers, nextId, repoOrders, saveLog,
                   epc, pubLog, stats>>
    /\ UNCHANGED <<productVars, readVars, httpVars, catalogVars, ctxVars, poolVars>>

\* ------------------------------------------- CreateOrder, the caller's side
\* lines 154-156: the select receives from productChan
RecvProduct(c) ==
    /\ pc[c] = "waitValidation"
    /\ productChan[c] # <<>>
    /\ productChan' = [productChan EXCEPT ![c] = Tail(@)]
    /\ pc' = [pc EXCEPT ![c] = "acquireDb"]
    /\ UNCHANGED <<args, order, result, gpc, gres, productErrChan, localCache,
                   redisEnabled, redisKV, redisSets, sf, clientInFlight,
                   clientCalls, dbWorkers, eventWorkers, nextId, repoOrders,
                   saveLog, epc, pubLog, stats>>
    /\ UNCHANGED <<productVars, readVars, httpVars, catalogVars, ctxVars, poolVars>>

\* lines 157-161: the select receives from productErrChan
RecvErr(c) ==
    /\ pc[c] = "waitValidation"
    /\ productErrChan[c] # <<>>
    /\ productErrChan' = [productErrChan EXCEPT ![c] = Tail(@)]
    /\ IF Head(productErrChan[c]) # NoErr
       THEN ReturnError(c, Wrap("product validation failed", Head(productErrChan[c])), FALSE)
       ELSE /\ pc' = [pc EXCEPT ![c] = "acquireDb"]
            /\ UNCHANGED <<result, stats, dbWorkers>>
    /\ UNCHANGED <<args, order, gpc, gres, productChan, localCache,
                   redisEnabled, redisKV, redisSets, sf, clientInFlight,
                   clientCalls, eventWorkers, nextId, repoOrders, saveLog,
                   epc, pubLog>>
    /\ UNCHANGED <<productVars, readVars, httpVars, catalogVars, ctxVars, poolVars>>

\* ValidationTimeout that goes on to the DB worker slot
ValidationTimeoutProceeding(c) ==
    /\ pc[c] = "waitValidation"
    /\ productChan[c] = <<>>
    /\ productErrChan[c] = <<>>
    /\ pc' = [pc EXCEPT ![c] = "acquireDb"]
    /\ UNCHANGED <<args, order, result, gpc, gres, productChan, productErrChan,
                   localCache, redisEnabled, redisKV, redisSets, sf,
                   clientInFlight, clientCalls, dbWorkers, eventWorkers, nextId,
                   repoOrders, saveLog, epc, pubLog, stats>>
    /\ UNCHANGED <<productVars, readVars, httpVars, catalogVars, ctxVars, poolVars>>

\* lines 162-164: neither channel had a value for 200 ms
ValidationTimeout(c) ==
    /\ pc[c] = "waitValidation"
    /\ productChan[c] = <<>>
    /\ productErrChan[c] = <<>>
    /\ ReturnError(c, <<"product validation timeout">>, FALSE)
    /\ UNCHANGED <<args, order, gpc, gres, productChan, productErrChan,
                   localCache, redisEnabled, redisKV, redisSets, sf,
                   clientInFlight, clientCalls, eventWorkers, nextId,
                   repoOrders, saveLog, epc, pubLog>>
    /\ UNCHANGED <<productVars, readVars, httpVars, catalogVars, ctxVars, poolVars>>

\* AcquireDb that calls repo.Save without taking a slot first
AcquireDbUnbounded(c) ==
    /\ pc[c] = "acquireDb"
    /\ dbWorkers' = dbWorkers + 1
    /\ saveLog' = [saveLog EXCEPT ![c] = Append(@, "running")]
    /\ pc' = [pc EXCEPT ![c] = "saving"]
    /\ UNCHANGED <<args, order, result, gpc, gres, productChan, productErrChan,
                   localCache, redisEnabled, redisKV, redisSets, sf,
                   clientInFlight, clientCalls, eventWorkers, nextId,
                   repoOrders, epc, pubLog, stats>>
    /\ UNCHANGED <<productVars, readVars, httpVars, catalogVars, ctxVars, poolVars>>

\* AcquireDb on a service whose two pools are one channel of cap(dbWorkers) slots
AcquireDbSharedPool(c) ==
    /\ pc[c] = "acquireDb"
    /\ dbWorkers + eventWorkers < dbCap
    /\ dbWorkers' = dbWorkers + 1
    /\ saveLog' = [saveLog EXCEPT ![c] = Append(@, "running")]
    /\ pc' = [pc EXCEPT ![c] = "saving"]
    /\ UNCHANGED <<args, order, result, gpc, gres, productChan, productErrChan,
                   localCache, redisEnabled, redisKV, redisSets, sf,
                   clientInFlight, clientCalls, eventWorkers, nextId,
                   repoOrders, epc, pubLog, stats>>
    /\ UNCHANGED <<productVars, readVars, httpVars, catalogVars, ctxVars, poolVars>>

\* lines 168-172: a DB worker slot is taken and repo.Save is called
AcquireDb(c) ==
    /\ pc[c] = "acquireDb"
    /\ dbWorkers < dbCap
    /\ dbWorkers' = dbWorkers + 1
    /\ saveLog' = [saveLog EXCEPT ![c] = Append(@, "running")]
    /\ pc' = [pc EXCEPT ![c] = "saving"]
    /\ UNCHANGED <<args, order, result, gpc, gres, productChan, productErrChan,
                   localCache, redisEnabled, redisKV, redisSets, sf,
                   clientInFlight, clientCalls, eventWorkers, nextId,
                   repoOrders, epc, pubLog, stats>>
    /\ UNCHANGED <<productVars, readVars, httpVars, catalogVars, ctxVars, poolVars>>

\* lines 182-184: no DB worker slot for 100 ms
DbTimeout(c) ==
    /\ pc[c] = "acquireDb"
    /\ dbWorkers = dbCap
    /\ ReturnError(c, <<"database connection timeout">>, FALSE)
    /\ UNCHANGED <<args, order, gpc, gres, productChan, productErrChan,
                   localCache, redisEnabled, redisKV, redisSets, sf,
                   clientInFlight, clientCalls, eventWorkers, nextId,
                   repoOrders, saveLog, epc, pubLog>>
    /\ UNCHANGED <<productVars, readVars, httpVars, catalogVars, ctxVars, poolVars>>

\* IdNotAssigned without the check of line 177
IdNotAssignedNever(o) == FALSE

\* line 177: order.ID == 0 after a Save that reported success
IdNotAssigned(o) == o.ID = 0

\* SaveReturn that logs a failed insert and goes on to the event dispatch
SaveReturnIgnoringError(c, out) ==
    /\ pc[c] = "saving"
    /\ IF out = "error"
       THEN /\ stats' = IncrementSuccessfulOrders(stats)
            /\ pc' = [pc EXCEPT ![c] = "dispatch"]
            /\ UNCHANGED <<order, nextId, repoOrders, result, dbWorkers>>
       ELSE LET saved == IF out = "ok" THEN [order[c] EXCEPT !.ID = nextId] ELSE order[c] IN
            /\ order' = [order EXCEPT ![c] = saved]
            /\ nextId' = IF out = "ok" THEN nextId + 1 ELSE nextId
            /\ repoOrders' = IF out = "ok" THEN repoOrders \cup {DbRow(saved)} ELSE repoOrders
            /\ IF IdNotAssigned(saved)
               THEN ReturnError(c, <<"order saved but ID not assigned">>, TRUE)
               ELSE /\ stats' = IncrementSuccessfulOrders(stats)
                    /\ pc' = [pc EXCEPT ![c] = "dispatch"]
                    /\ UNCHANGED <<result, dbWorkers>>
    /\ saveLog' = [saveLog EXCEPT ![c] = [@ EXCEPT ![Len(@)] = out]]
    /\ UNCHANGED <<args, gpc, gres, productChan, productErrChan, localCache,
                   redisEnabled, redisKV, redisSets, sf, clientInFlight,
                   clientCalls, eventWorkers, epc, pubLog>>
    /\ UNCHANGED <<productVars, readVars, httpVars, catalogVars, ctxVars, poolVars>>

\* SaveReturn over a table that gives every insert the same identifier
SaveReturnReusingId(c, out) ==
    /\ pc[c] = "saving"
    /\ IF out = "error"
       THEN /\ ReturnError(c, Wrap("failed to save order", <<"database error">>), TRUE)
            /\ UNCHANGED <<order, nextId, repoOrders>>
       ELSE LET saved == IF out = "ok" THEN [order[c] EXCEPT !.ID = nextId] ELSE order[c] IN
            /\ order' = [order EXCEPT ![c] = saved]
            /\ nextId' = nextId
            /\ repoOrders' = IF out = "ok" THEN repoOrders \cup {DbRow(saved)} ELSE repoOrders
            /\ IF IdNotAssigned(saved)
               THEN ReturnError(c, <<"order saved but ID not assigned">>, TRUE)
               ELSE /\ stats' = IncrementSuccessfulOrders(stats)
                    /\ pc' = [pc EXCEPT ![c] = "dispatch"]
                    /\ UNCHANGED <<result, dbWorkers>>
    /\ saveLog' = [saveLog EXCEPT ![c] = [@ EXCEPT ![Len(@)] = out]]
    /\ UNCHANGED <<args, gpc, gres, productChan, productErrChan, localCache,
                   redisEnabled, redisKV, redisSets, sf, clientInFlight,
                   clientCalls, eventWorkers, epc, pubLog>>
    /\ UNCHANGED <<productVars, readVars, httpVars, catalogVars, ctxVars, poolVars>>

\* lines 172-187: repo.Save returns. out is "ok" (row inserted, id assigned),
\* "error" (the insert failed) or "noId" (success reported, ID left 0)
SaveReturn(c, out) ==
    /\ pc[c] = "saving"
    /\ IF out = "error"
       THEN /\ ReturnError(c, Wrap("failed to save order", <<"database error">>), TRUE)
            /\ UNCHANGED <<order, nextId, repoOrders>>
       ELSE LET saved == IF out = "ok" THEN [order[c] EXCEPT !.ID = nextId] ELSE order[c] IN
            /\ order' = [order EXCEPT ![c] = saved]
            /\ nextId' = IF out = "ok" THEN nextId + 1 ELSE nextId
            /\ repoOrders' = IF out = "ok" THEN repoOrders \cup {DbRow(saved)} ELSE repoOrders
            /\ IF IdNotAssigned(saved)
               THEN ReturnError(c, <<"order saved but ID not assigned">>, TRUE)
               ELSE /\ stats' = IncrementSuccessfulOrders(stats)
                    /\ pc' = [pc EXCEPT ![c] = "dispatch"]
                    /\ UNCHANGED <<result, dbWorkers>>
    /\ saveLog' = [saveLog EXCEPT ![c] = [@ EXCEPT ![Len(@)] = out]]
    /\ UNCHANGED <<args, gpc, gres, productChan, productErrChan, localCache,
                   redisEnabled, redisKV, redisSets, sf, clientInFlight,
                   clientCalls, eventWorkers, epc, pubLog>>
    /\ UNCHANGED <<productVars, readVars, httpVars, catalogVars, ctxVars, poolVars>>

\* DispatchEvent that fails the call when the event worker pool is full
DispatchEventFailing(c) ==
    /\ pc[c] = "dispatch"
    /\ IF eventWorkers < EvCap
       THEN /\ eventWorkers' = eventWorkers + 1
            /\ epc' = [epc EXCEPT ![c] = "spawned"]
            /\ result' = [result EXCEPT ![c] = [order |-> order[c], err |-> NoErr]]
       ELSE /\ epc' = [epc EXCEPT ![c] = "skipped"]
            /\ result' = [result EXCEPT ![c] = [order |-> NoOrder, err |-> <<"event worker pool full">>]]
            /\ UNCHANGED eventWorkers
    /\ pc' = [pc EXCEPT ![c] = "done"]
    /\ dbWorkers' = dbWorkers - 1
    /\ UNCHANGED <<args, order, gpc, gres, productChan, productErrChan,
                   localCache, redisEnabled, redisKV, redisSets, sf,
                   clientInFlight, clientCalls, nextId, repoOrders, saveLog,
                   pubLog, stats>>
    /\ UNCHANGED <<productVars, readVars, httpVars, catalogVars, ctxVars, poolVars>>

\* lines 190-207: the publish goroutine is started when an event worker
\* slot is free, else the event is skipped; the order is returned and the
\* deferred release of the DB worker slot runs
DispatchEvent(c) ==
    /\ pc[c] = "dispatch"
    /\ IF eventWorkers < EvCap
       THEN /\ eventWorkers' = eventWorkers + 1
            /\ epc' = [epc EXCEPT ![c] = "spawned"]
       ELSE /\ epc' = [epc EXCEPT ![c] = "skipped"]
            /\ UNCHANGED eventWorkers
    /\ result' = [result EXCEPT ![c] = [order |-> order[c], err |-> NoErr]]
    /\ pc' = [pc EXCEPT ![c] = "done"]
    /\ dbWorkers' = dbWorkers - 1
    /\ UNCHANGED <<args, order, gpc, gres, productChan, productErrChan,
                   localCache, redisEnabled, redisKV, redisSets, sf,
                   clientInFlight, clientCalls, nextId, repoOrders, saveLog,
                   pubLog, stats>>
    /\ UNCHANGED <<productVars, readVars, httpVars, catalogVars, ctxVars, poolVars>>

\* ------------------------------------ OrderService.publishOrderCreatedEvent
\* OrderCreatedPayload with the product's id in place of the order's
OrderCreatedPayloadProductId(o) ==
    [topic |-> "order.created", orderId |-> o.ProductId, productId |-> o.ProductId,
     totalPrice |-> o.TotalPrice, createdAt |-> o.CreatedAt]

\* lines 288-293: the payload built from the order
OrderCreatedPayload(o) ==
    [topic |-> "order.created", orderId |-> o.ID, productId |-> o.ProductId,
     totalPrice |-> o.TotalPrice, createdAt |-> o.CreatedAt]

\* lines 194 and 287-299: the publish goroutine calls publisher.Publish
PublishCall(c) ==
    /\ epc[c] = "spawned"
    /\ pubLog' = [pubLog EXCEPT ![c] = Append(@, OrderCreatedPayload(order[c]))]
    /\ epc' = [epc EXCEPT ![c] = "publishing"]
    /\ UNCHANGED <<pc, args, order, result, gpc, gres, productChan,
                   productErrChan, localCache, redisEnabled, redisKV, redisSets,
                   sf, clientInFlight, clientCalls, dbWorkers, eventWorkers,
                   nextId, repoOrders, saveLog, stats>>
    /\ UNCHANGED <<productVars, readVars, httpVars, catalogVars, ctxVars, poolVars>>

\* lines 193 and 299-301: Publish returns (nil, an error, or the 1 s deadline
\* passed); an error is logged, the event worker slot is released
PublishReturn(c, ok) ==
    /\ epc[c] = "publishing"
    /\ epc' = [epc EXCEPT ![c] = IF ok THEN "published" ELSE "failed"]
    /\ eventWorkers' = eventWorkers - 1
    /\ UNCHANGED <<pc, args, order, result, gpc, gres, productChan,
                   productErrChan, localCache, redisEnabled, redisKV, redisSets,
                   sf, clientInFlight, clientCalls, dbWorkers, nextId,
                   repoOrders, saveLog, pubLog, stats>>
    /\ UNCHANGED <<productVars, readVars, httpVars, catalogVars, ctxVars, poolVars>>

\* ------------------------------------------------------------ environment
\* time passes expiresAt of a local entry (30 s after it was stored)
LocalExpire(pid) ==
    /\ localCache[pid].present
    /\ ~localCache[pid].expired
    /\ localCache' = [localCache EXCEPT ![pid].expired = TRUE]
    /\ UNCHANGED <<pc, args, order, result, gpc, gres, productChan,
                   productErrChan, redisEnabled, redisKV, redisSets, sf,
                   clientInFlight, clientCalls, dbWorkers, eventWorkers,
                   nextId, repoOrders, saveLog, epc, pubLog, stats>>
    /\ UNCHANGED <<productVars, readVars, httpVars, catalogVars, ctxVars, poolVars>>

Next ==
    \/ \E c \in Calls, p \in ProductIds, t \in Prices : CreateOrder(c, p, t)
    \/ \E c \in Calls : ValidateCached(c)
    \/ \E c \in Calls : SfDo(c)
    \/ \E c \in Calls, timedOut \in BOOLEAN : RedisGetReturn(c, timedOut)
    \/ \E c \in Calls : \E out \in ClientOutcomes(args[c].productId) : ClientReturn(c, out)
    \/ \E w \in redisSets, ok \in BOOLEAN : RedisSetDone(w, ok)
    \/ \E c \in Calls : ReportValidation(c)
    \/ \E c \in Calls : RecvProduct(c)
    \/ \E c \in Calls : RecvErr(c)
    \/ \E c \in Calls : ValidationTimeout(c)
    \/ \E c \in Calls : AcquireDb(c)
    \/ \E c \in Calls : DbTimeout(c)
    \/ \E c \in Calls, out \in {"ok", "error", "noId"} : SaveReturn(c, out)
    \/ \E c \in Calls : DispatchEvent(c)
    \/ \E c \in Calls : PublishCall(c)
    \/ \E c \in Calls, ok \in BOOLEAN : PublishReturn(c, ok)
    \/ \E p \in ProductIds : LocalExpire(p)

\* ================================================== order service, read path
ErrOrderNotFound == <<"order not found">>

\* a nil []domain.Order
NoList == [isNil |-> TRUE, items |-> <<>>]

NoRead == [method |-> "none", arg |-> 0, found |-> NoResult, ret |-> NoResult]

\* identifiers asked for: those the calls can be given, and one more
ReadIds == 1..(NumCalls + 1)

InitRead == readRes = NoRead

\* a is earlier than b
Before(a, b) == a.ms < b.ms \/ (a.ms = b.ms /\ a.us < b.us)

\* orderRepo.FindByID: the row with the primary key, (nil, nil) when there
\* is none, (nil, err) when the query fails
FindByIDOutcomes(id) ==
    {[o |-> NoOrder, err |-> <<"database error">>]} \cup
    (IF \E r \in repoOrders : r.ID = id
     THEN {[o |-> r, err |-> NoErr] : r \in {q \in repoOrders : q.ID = id}}
     ELSE {[o |-> NoOrder, err |-> NoErr]})

\* the orders of rows in an order that ORDER BY created_at DESC allows
SortedByCreatedAtDesc(rows) ==
    {s \in [1..Cardinality(rows) -> rows] :
        \A i, j \in 1..Cardinality(rows) :
            i < j => (s[i] # s[j] /\ ~Before(s[i].CreatedAt, s[j].CreatedAt))}

\* orderRepo.FindByProductId: the product's rows, newest first, (nil, nil)
\* when there are none, (nil, err) when the query fails
FindByProductIdOutcomes(productId) ==
    {[list |-> NoList, err |-> <<"database error">>]} \cup
    {[list |-> IF DOMAIN s = {} THEN NoList ELSE [isNil |-> FALSE, items |-> s],
      err |-> NoErr] :
        s \in SortedByCreatedAtDesc({r \in repoOrders : r.ProductId = productId})}

\* GetOrderById without the nil check of lines 335-337
GetOrderByIdNoNilCheck(found) ==
    IF found.err # NoErr THEN [order |-> NoOrder, err |-> found.err]
    ELSE [order |-> found.o, err |-> NoErr]

\* lines 326-339, given what repo.FindByID returned
GetOrderById(found) ==
    IF found.err # NoErr THEN [order |-> NoOrder, err |-> found.err]
    ELSE IF found.o = NoOrder THEN [order |-> NoOrder, err |-> ErrOrderNotFound]
    ELSE [order |-> found.o, err |-> NoErr]

\* GetOrderByProductId that returns the list oldest first
GetOrderByProductIdReversed(found) ==
    IF found.err # NoErr THEN [list |-> NoList, err |-> found.err]
    ELSE IF found.list.isNil THEN [list |-> NoList, err |-> ErrOrderNotFound]
    ELSE [list |-> [isNil |-> FALSE,
                    items |-> [i \in DOMAIN found.list.items |->
                        found.list.items[Len(found.list.items) + 1 - i]]],
          err |-> NoErr]

\* lines 341-354, given what repo.FindByProductId returned
GetOrderByProductId(found) ==
    IF found.err # NoErr THEN [list |-> NoList, err |-> found.err]
    ELSE IF found.list.isNil THEN [list |-> NoList, err |-> ErrOrderNotFound]
    ELSE [list |-> found.list, err |-> NoErr]

\* a GetOrderById call: one FindByID query, then the return
GetOrderByIdCall(id, found) ==
    /\ readRes' = [method |-> "GetOrderById", arg |-> id, found |-> found,
                   ret |-> GetOrderById(found)]
    /\ UNCHANGED <<orderVars, productVars, httpVars, catalogVars, ctxVars, poolVars>>

\* a GetOrderByProductId call: one FindByProductId query, then the return
GetOrderByProductIdCall(productId, found) ==
    /\ readRes' = [method |-> "GetOrderByProductId", arg |-> productId,
                   found |-> found, ret |-> GetOrderByProductId(found)]
    /\ UNCHANGED <<orderVars, productVars, httpVars, catalogVars, ctxVars, poolVars>>

\* CreateOrder calls on a service without a Redis client, and reads of the
\* orders they persist
ReadNext ==
    \/ \E c \in Calls, p \in ProductIds, t \in Prices : CreateOrder(c, p, t)
    \/ \E c \in Calls : ValidateCached(c)
    \/ \E c \in Calls : SfDo(c)
    \/ \E c \in Calls : \E out \in ClientOutcomes(args[c].productId) : ClientReturn(c, out)
    \/ \E c \in Calls : ReportValidation(c)
    \/ \E c \in Calls : RecvProduct(c)
    \/ \E c \in Calls : RecvErr(c)
    \/ \E c \in Calls : ValidationTimeout(c)
    \/ \E c \in Calls : AcquireDb(c)
    \/ \E c \in Calls : DbTimeout(c)
    \/ \E c \in Calls, out \in {"ok", "error", "noId"} : SaveReturn(c, out)
    \/ \E c \in Calls : DispatchEvent(c)
    \/ \E c \in Calls : PublishCall(c)
    \/ \E c \in Calls, ok \in BOOLEAN : PublishReturn(c, ok)
    \/ \E p \in ProductIds : LocalExpire(p)
    \/ \E id \in ReadIds : \E found \in FindByIDOutcomes(id) : GetOrderByIdCall(id, found)
    \/ \E p \in ProductIds : \E found \in FindByProductIdOutcomes(p) :
            GetOrderByProductIdCall(p, found)

\* ============================================== order service, HTTP handlers
Posts == 1..NumPosts
Listings == 1..NumListings
NoCached == [present |-> FALSE, body |-> <<>>]
NoResponse == [status |-> 0, body |-> <<>>]

InitHttp ==
    /\ listCache = [p \in ProductIds |-> NoCached]
    /\ post = [c \in Calls |-> NoResponse]
    /\ lpc = [l \in Listings |-> "idle"]
    /\ lArg = [l \in Listings |-> 0]
    /\ lOrders = [l \in Listings |-> NoList]
    /\ lResp = [l \in Listings |-> NoResponse]
    /\ lAfter = [l \in Listings |-> {}]

\* an order placed before this instance started
EarlierOrder ==
    DbRow([ID |-> 1, ProductId |-> 1, TotalPrice |-> 1000, Status |-> "pending",
           CreatedAt |-> Clock(0)])

\* the JSON form of an Order (the json tags of domain.Order)
OrderJSON(o) ==
    [id |-> o.ID, productId |-> o.ProductId, totalPrice |-> o.TotalPrice,
     status |-> o.Status, createdAt |-> o.CreatedAt]

\* json.Marshal of a list of orders
ListingBody(list) == [i \in DOMAIN list.items |-> OrderJSON(list.items[i])]

\* handler.go 42-50: service.CreateOrder has returned to the handler; an
\* error is answered with 400, else the product's listing key is deleted
\* and the order's id is answered with 201
HandlerCreateOrderReturn(c) ==
    /\ pc[c] = "done"
    /\ post[c] = NoResponse
    /\ IF result[c].err # NoErr
       THEN /\ post' = [post EXCEPT ![c] = [status |-> 400, body |-> <<[error |-> result[c].err]>>]]
            /\ UNCHANGED listCache
       ELSE /\ listCache' = [listCache EXCEPT ![args[c].productId] = NoCached]
            /\ post' = [post EXCEPT ![c] = [status |-> 201, body |-> <<[id |-> result[c].order.ID]>>]]
    /\ UNCHANGED <<lpc, lArg, lOrders, lResp, lAfter>>
    /\ UNCHANGED <<orderVars, productVars, readVars, catalogVars, ctxVars, poolVars>>

\* the ids of the product's orders whose POST /orders was answered with 201
Answered(productId) ==
    {post[c].body[1].id : c \in {d \in Calls : post[d].status = 201 /\ args[d].productId = productId}}

\* handler.go 53-63: a listing request arrives and sends its GET to Redis.
\* Requests are numbered in the order they arrive.
ListRequest(l, productId) ==
    /\ lpc[l] = "idle"
    /\ \A k \in Listings : k < l => lpc[k] # "idle"
    /\ lpc' = [lpc EXCEPT ![l] = "get"]
    /\ lArg' = [lArg EXCEPT ![l] = productId]
    /\ lAfter' = [lAfter EXCEPT ![l] = Answered(productId)]
    /\ UNCHANGED <<listCache, post, lOrders, lResp>>
    /\ UNCHANGED <<orderVars, productVars, readVars, catalogVars, ctxVars, poolVars>>

\* handler.go 63-69: the Redis GET returns; a value is answered as it is,
\* a miss or a failed GET leads on to the service
ListCacheGet(l, failed) ==
    /\ lpc[l] = "get"
    /\ IF ~failed /\ listCache[lArg[l]].present
       THEN /\ lResp' = [lResp EXCEPT ![l] = [status |-> 200, body |-> listCache[lArg[l]].body]]
            /\ lpc' = [lpc EXCEPT ![l] = "done"]
       ELSE /\ lpc' = [lpc EXCEPT ![l] = "find"]
            /\ UNCHANGED lResp
    /\ UNCHANGED <<listCache, post, lArg, lOrders, lAfter>>
    /\ UNCHANGED <<orderVars, productVars, readVars, catalogVars, ctxVars, poolVars>>

\* handler.go 71-78: service.GetOrderByProductId returns; an error is
\* answered with 500, else the list is marshalled and the SET sent to Redis
ListFind(l, found) ==
    /\ lpc[l] = "find"
    /\ IF GetOrderByProductId(found).err # NoErr
       THEN /\ lResp' = [lResp EXCEPT ![l] =
                    [status |-> 500, body |-> <<[error |-> GetOrderByProductId(found).err]>>]]
            /\ lpc' = [lpc EXCEPT ![l] = "done"]
            /\ UNCHANGED lOrders
       ELSE /\ lOrders' = [lOrders EXCEPT ![l] = GetOrderByProductId(found).list]
            /\ lpc' = [lpc EXCEPT ![l] = "set"]
            /\ UNCHANGED lResp
    /\ UNCHANGED <<listCache, post, lArg, lAfter>>
    /\ UNCHANGED <<orderVars, productVars, readVars, catalogVars, ctxVars, poolVars>>

\* handler.go 78-80: the Redis SET (TTL 10 s) returns, its error ignored,
\* and the list is answered
ListCacheSet(l, ok) ==
    /\ lpc[l] = "set"
    /\ listCache' = IF ok
                    THEN [listCache EXCEPT ![lArg[l]] =
                            [present |-> TRUE, body |-> ListingBody(lOrders[l])]]
                    ELSE listCache
    /\ lResp' = [lResp EXCEPT ![l] = [status |-> 200, body |-> ListingBody(lOrders[l])]]
    /\ lpc' = [lpc EXCEPT ![l] = "done"]
    /\ UNCHANGED <<post, lArg, lOrders, lAfter>>
    /\ UNCHANGED <<orderVars, productVars, readVars, catalogVars, ctxVars, poolVars>>

\* the 10 s of a cached listing pass
ListCacheExpire(productId) ==
    /\ listCache[productId].present
    /\ listCache' = [listCache EXCEPT ![productId] = NoCached]
    /\ UNCHANGED <<post, lpc, lArg, lOrders, lResp, lAfter>>
    /\ UNCHANGED <<orderVars, productVars, readVars, catalogVars, ctxVars, poolVars>>

\* POST /orders and GET /orders/product/:productId requests served by one
\* instance; every CreateOrder call is a handler's. The calls are no more
\* than the DB worker slots, so the timeout of line 182 never wins.
HandlerNext ==
    \/ \E c \in Posts, p \in ProductIds, t \in Prices : CreateOrder(c, p, t)
    \/ \E c \in Calls : ValidateCached(c)
    \/ \E c \in Calls : SfDo(c)
    \/ \E c \in Calls, timedOut \in BOOLEAN : RedisGetReturn(c, timedOut)
    \/ \E c \in Calls : \E out \in ClientOutcomes(args[c].productId) : ClientReturn(c, out)
    \/ \E w \in redisSets, ok \in BOOLEAN : RedisSetDone(w, ok)
    \/ \E c \in Calls : ReportValidation(c)
    \/ \E c \in Calls : RecvProduct(c)
    \/ \E c \in Calls : RecvErr(c)
    \/ \E c \in Calls : ValidationTimeout(c)
    \/ \E c \in Calls : AcquireDb(c)
    \/ \E c \in Calls, out \in {"ok", "error", "noId"} : SaveReturn(c, out)
    \/ \E c \in Calls : DispatchEvent(c)
    \/ \E c \in Calls : PublishCall(c)
    \/ \E c \in Calls, ok \in BOOLEAN : PublishReturn(c, ok)
    \/ \E p \in ProductIds : LocalExpire(p)
    \/ \E c \in Calls : HandlerCreateOrderReturn(c)
    \/ \E l \in Listings, p \in ProductIds : ListRequest(l, p)
    \/ \E l \in Listings, failed \in BOOLEAN : ListCacheGet(l, failed)
    \/ \E l \in Listings : \E found \in FindByProductIdOutcomes(lArg[l]) : ListFind(l, found)
    \/ \E l \in Listings, ok \in BOOLEAN : ListCacheSet(l, ok)
    \/ \E p \in ProductIds : ListCacheExpire(p)

\* ======================================== product service, GET /products/:id
Readers == 1..NumReaders
NoCachedProduct == [present |-> FALSE, product |-> NoProduct]
NoFindOne == [kind |-> "none", product |-> NoProduct]

InitCatalog ==
    /\ productCache = [p \in ProductIds |-> NoCachedProduct]
    /\ rpc = [r \in Readers |-> "idle"]
    /\ rId = [r \in Readers |-> 0]
    /\ rIssue = [r \in Readers |-> NoProduct]
    /\ rLog = [r \in Readers |-> <<>>]
    /\ rResult = [r \in Readers |-> NoFindOne]

\* =========================================================== product service
InitProduct ==
    /\ productRepo = [p \in ProductIds |-> NoProduct]
    /\ hpc = [h \in Handlers |-> "idle"]
    /\ hEvent = [h \in Handlers |-> NoEvent]
    /\ hProduct = [h \in Handlers |-> NoProduct]
    /\ emitted = [h \in Handlers |-> <<>>]
    /\ initialQty = [p \in ProductIds |-> 0]
    /\ decByOrder = [o \in OrderIds |-> 0]

\* ProductService.create: the row gets the next generated id (qty >= 0 by
\* CreateProductDto)
Create(qty) ==
    /\ \E p \in ProductIds :
        /\ ~productRepo[p].exists
        /\ \A q \in ProductIds : q < p => productRepo[q].exists
        /\ productRepo' = [productRepo EXCEPT ![p] = [exists |-> TRUE, qty |-> qty]]
        /\ initialQty' = [initialQty EXCEPT ![p] = qty]
    /\ UNCHANGED <<hpc, hEvent, hProduct, emitted, decByOrder>>
    /\ UNCHANGED <<orderVars, readVars, httpVars, catalogVars, ctxVars, poolVars>>

\* product.controller.ts 43-49: an order.created delivery reaches the
\* handler, which calls decrementQty; decrementQty awaits productRepo.findOne.
\* A redelivery of an order's event carries the same product id.
HandleOrderCreated(h, orderId, productId) ==
    /\ hpc[h] = "idle"
    /\ \A g \in Handlers : hEvent[g].orderId = orderId => hEvent[g].productId = productId
    /\ hEvent' = [hEvent EXCEPT ![h] = [orderId |-> orderId, productId |-> productId]]
    /\ hpc' = [hpc EXCEPT ![h] = "findOne"]
    /\ UNCHANGED <<productRepo, hProduct, emitted, initialQty, decByOrder>>
    /\ UNCHANGED <<orderVars, readVars, httpVars, catalogVars, ctxVars, poolVars>>

\* NoStock without the test of product.service.ts 44
NoStockMissingOnly(product) == ~product.exists

\* NoStock with < in place of <= at product.service.ts 44
NoStockBelowZero(product) == ~product.exists \/ product.qty < 0

\* product.service.ts 43-44: decrementQty returns null
NoStock(product) == ~product.exists \/ product.qty <= 0

\* the outcome events of product.controller.ts 51-62
QtyFailed(orderId) ==
    [pattern |-> "order.qty_failed", orderId |-> orderId,
     reason |-> "product_not_found_or_unavailable"]
QtyConfirmed(orderId) ==
    [pattern |-> "order.qty_confirmed", orderId |-> orderId, reason |-> ""]

\* FindOneReturn of a handler without the return of product.controller.ts 59:
\* after order.qty_failed it goes on to emit order.qty_confirmed
FindOneReturnNoReturn(h) ==
    LET product == productRepo[hEvent[h].productId] IN
    /\ hpc[h] = "findOne"
    /\ IF NoStock(product)
       THEN /\ emitted' = [emitted EXCEPT ![h] =
                    Append(Append(@, QtyFailed(hEvent[h].orderId)), QtyConfirmed(hEvent[h].orderId))]
            /\ hpc' = [hpc EXCEPT ![h] = "done"]
            /\ UNCHANGED hProduct
       ELSE /\ hProduct' = [hProduct EXCEPT ![h] = [product EXCEPT !.qty = @ - 1]]
            /\ hpc' = [hpc EXCEPT ![h] = "save"]
            /\ UNCHANGED emitted
    /\ UNCHANGED <<productRepo, hEvent, initialQty, decByOrder>>
    /\ UNCHANGED <<orderVars, readVars, httpVars, catalogVars, ctxVars, poolVars>>

\* product.service.ts 40-46 and product.controller.ts 51-60: findOne
\* resolves with the row as it is now; without stock decrementQty returns
\* null and the handler emits order.qty_failed and returns; else the loaded
\* entity's qty is lowered and productRepo.save is awaited
FindOneReturn(h) ==
    LET product == productRepo[hEvent[h].productId] IN
    /\ hpc[h] = "findOne"
    /\ IF NoStock(product)
       THEN /\ emitted' = [emitted EXCEPT ![h] = Append(@, QtyFailed(hEvent[h].orderId))]
            /\ hpc' = [hpc EXCEPT ![h] = "done"]
            /\ UNCHANGED hProduct
       ELSE /\ hProduct' = [hProduct EXCEPT ![h] = [product EXCEPT !.qty = @ - 1]]
            /\ hpc' = [hpc EXCEPT ![h] = "save"]
            /\ UNCHANGED emitted
    /\ UNCHANGED <<productRepo, hEvent, initialQty, decByOrder>>
    /\ UNCHANGED <<orderVars, readVars, httpVars, catalogVars, ctxVars, poolVars>>

\* product.service.ts 47 and product.controller.ts 62: save writes the
\* entity the handler holds; the handler emits order.qty_confirmed
SaveReturnProduct(h) ==
    /\ hpc[h] = "save"
    /\ productRepo' = [productRepo EXCEPT ![hEvent[h].productId] = hProduct[h]]
    /\ decByOrder' = [decByOrder EXCEPT ![hEvent[h].orderId] =
            @ + (productRepo[hEvent[h].productId].qty - hProduct[h].qty)]
    /\ emitted' = [emitted EXCEPT ![h] = Append(@, QtyConfirmed(hEvent[h].orderId))]
    /\ hpc' = [hpc EXCEPT ![h] = "done"]
    /\ UNCHANGED <<hEvent, hProduct, initialQty>>
    /\ UNCHANGED <<orderVars, readVars, httpVars, catalogVars, ctxVars, poolVars>>

ProductNext ==
    \/ \E q \in 0..MaxQty : Create(q)
    \/ \E h \in Handlers, o \in OrderIds, p \in ProductIds : HandleOrderCreated(h, o, p)
    \/ \E h \in Handlers : FindOneReturn(h)
    \/ \E h \in Handlers : SaveReturnProduct(h)

\* ------------------------------------------------- ProductService.findOne
ProductCacheTtl == 60000

\* the cache key of product.service.ts 19
CacheKey(id) == <<"product:", id>>

\* a call findOne made on cacheManager or productRepo
CacheGet(key, val) == [op |-> "cacheManager.get", key |-> key, val |-> val, ttl |-> 0]
CacheSet(key, val, ttl) == [op |-> "cacheManager.set", key |-> key, val |-> val, ttl |-> ttl]
RepoFindOne(id, val) == [op |-> "productRepo.findOne", key |-> id, val |-> val, ttl |-> 0]

\* product.controller.ts 32-35 and product.service.ts 18-20: GET
\* /products/:id calls findOne, which awaits cacheManager.get. Requests are
\* numbered in the order they arrive.
FindOneRequest(r, id) ==
    /\ rpc[r] = "idle"
    /\ \A q \in Readers : q < r => rpc[q] # "idle"
    /\ rpc' = [rpc EXCEPT ![r] = "cacheGet"]
    /\ rId' = [rId EXCEPT ![r] = id]
    /\ rIssue' = [rIssue EXCEPT ![r] = productRepo[id]]
    /\ UNCHANGED <<productCache, rLog, rResult>>
    /\ UNCHANGED <<orderVars, productVars, readVars, httpVars, ctxVars, poolVars>>

\* CacheGetReturn that goes on to the repository whatever the cache gave
CacheGetReturnIgnoringHit(r) ==
    /\ rpc[r] = "cacheGet"
    /\ rLog' = [rLog EXCEPT ![r] = Append(@, CacheGet(CacheKey(rId[r]), productCache[rId[r]]))]
    /\ rpc' = [rpc EXCEPT ![r] = "repoFind"]
    /\ UNCHANGED <<productCache, rId, rIssue, rResult>>
    /\ UNCHANGED <<orderVars, productVars, readVars, httpVars, ctxVars, poolVars>>

\* product.service.ts 20-25: cacheManager.get resolves; a cached product is
\* returned, else productRepo.findOne is awaited
CacheGetReturn(r) ==
    /\ rpc[r] = "cacheGet"
    /\ rLog' = [rLog EXCEPT ![r] = Append(@, CacheGet(CacheKey(rId[r]), productCache[rId[r]]))]
    /\ IF productCache[rId[r]].present
       THEN /\ rResult' = [rResult EXCEPT ![r] =
                    [kind |-> "product", product |-> productCache[rId[r]].product]]
            /\ rpc' = [rpc EXCEPT ![r] = "done"]
       ELSE /\ rpc' = [rpc EXCEPT ![r] = "repoFind"]
            /\ UNCHANGED rResult
    /\ UNCHANGED <<productCache, rId, rIssue>>
    /\ UNCHANGED <<orderVars, productVars, readVars, httpVars, ctxVars, poolVars>>

\* product.service.ts 25-27: productRepo.findOne resolves with the row as
\* it is now; without a row NotFoundException is thrown, else
\* cacheManager.set is awaited
RepoFindReturn(r) ==
    /\ rpc[r] = "repoFind"
    /\ rLog' = [rLog EXCEPT ![r] = Append(@, RepoFindOne(rId[r], productRepo[rId[r]]))]
    /\ IF ~productRepo[rId[r]].exists
       THEN /\ rResult' = [rResult EXCEPT ![r] = [kind |-> "NotFound", product |-> NoProduct]]
            /\ rpc' = [rpc EXCEPT ![r] = "done"]
       ELSE /\ rpc' = [rpc EXCEPT ![r] = "cacheSet"]
            /\ UNCHANGED rResult
    /\ UNCHANGED <<productCache, rId, rIssue>>
    /\ UNCHANGED <<orderVars, productVars, readVars, httpVars, ctxVars, poolVars>>

\* product.service.ts 27-28: cacheManager.set stores the product that was
\* loaded, and the product is returned
CacheSetReturn(r) ==
    LET product == rLog[r][Len(rLog[r])].val IN
    /\ rpc[r] = "cacheSet"
    /\ productCache' = [productCache EXCEPT ![rId[r]] = [present |-> TRUE, product |-> product]]
    /\ rLog' = [rLog EXCEPT ![r] = Append(@, CacheSet(CacheKey(rId[r]), product, ProductCacheTtl))]
    /\ rResult' = [rResult EXCEPT ![r] = [kind |-> "product", product |-> product]]
    /\ rpc' = [rpc EXCEPT ![r] = "done"]
    /\ UNCHANGED <<rId, rIssue>>
    /\ UNCHANGED <<orderVars, productVars, readVars, httpVars, ctxVars, poolVars>>

\* the TTL of a cached product passes
ProductCacheExpire(id) ==
    /\ productCache[id].present
    /\ productCache' = [productCache EXCEPT ![id] = NoCachedProduct]
    /\ UNCHANGED <<rpc, rId, rIssue, rLog, rResult>>
    /\ UNCHANGED <<orderVars, productVars, readVars, httpVars, ctxVars, poolVars>>

\* products created and read
FindOneNext ==
    \/ \E q \in 0..MaxQty : Create(q)
    \/ \E r \in Readers, id \in ProductIds : FindOneRequest(r, id)
    \/ \E r \in Readers : CacheGetReturn(r)
    \/ \E r \in Readers : RepoFindReturn(r)
    \/ \E r \in Readers : CacheSetReturn(r)
    \/ \E id \in ProductIds : ProductCacheExpire(id)

\* products created and read while order.created events are handled
CatalogNext ==
    \/ \E q \in 0..MaxQty : Create(q)
    \/ \E h \in Handlers, o \in OrderIds, p \in ProductIds : HandleOrderCreated(h, o, p)
    \/ \E h \in Handlers : FindOneReturn(h)
    \/ \E h \in Handlers : SaveReturnProduct(h)
    \/ \E r \in Readers, id \in ProductIds : FindOneRequest(r, id)
    \/ \E r \in Readers : CacheGetReturn(r)
    \/ \E r \in Readers : RepoFindReturn(r)
    \/ \E r \in Readers : CacheSetReturn(r)
    \/ \E id \in ProductIds : ProductCacheExpire(id)

\* ================================================ order service, contexts
\* the ctx given to CreateOrder (the request's context, handler.go line 39)
\* is cancelled while the call waits in one of its two selects
Cancel(c) ==
    /\ pc[c] \in {"waitValidation", "acquireDb"}
    /\ ~cancelled[c]
    /\ cancelled' = [cancelled EXCEPT ![c] = TRUE]
    /\ UNCHANGED <<qpc, qArg, qExpired>>
    /\ UNCHANGED <<orderVars, productVars, readVars, httpVars, catalogVars, poolVars>>

\* GetProductById returns to the caller that runs the flight: its request
\* carries a context derived from the caller's ctx (line 254), so under a
\* cancelled ctx httpClient.Do fails and the call returns the error
ClientReturnCtx(c, out) ==
    /\ cancelled[c] => out.kind = "error"
    /\ ClientReturn(c, out)

\* CreateOrder calls on a service without a Redis client
CreateNext ==
    \/ \E c \in Calls, p \in ProductIds, t \in Prices : CreateOrder(c, p, t)
    \/ \E c \in Calls : ValidateCached(c)
    \/ \E c \in Calls : SfDo(c)
    \/ \E c \in Calls : \E out \in ClientOutcomes(args[c].productId) : ClientReturn(c, out)
    \/ \E c \in Calls : ReportValidation(c)
    \/ \E c \in Calls : RecvProduct(c)
    \/ \E c \in Calls : RecvErr(c)
    \/ \E c \in Calls : ValidationTimeout(c)
    \/ \E c \in Calls : AcquireDb(c)
    \/ \E c \in Calls : DbTimeout(c)
    \/ \E c \in Calls, out \in {"ok", "error", "noId"} : SaveReturn(c, out)
    \/ \E c \in Calls : DispatchEvent(c)
    \/ \E c \in Calls : PublishCall(c)
    \/ \E c \in Calls, ok \in BOOLEAN : PublishReturn(c, ok)
    \/ \E p \in ProductIds : LocalExpire(p)

\* lines 327-330 and 342-345: a read call derives its ctx (1 s for
\* GetOrderById, 2 s for GetOrderByProductId) and calls the repository,
\* which takes no ctx
ReadBegin(method, arg) ==
    /\ qpc = "idle"
    /\ qpc' = "querying"
    /\ qArg' = [method |-> method, arg |-> arg]
    /\ qExpired' = FALSE
    /\ UNCHANGED cancelled
    /\ UNCHANGED <<orderVars, productVars, readVars, httpVars, catalogVars, poolVars>>

\* the deadline of the read call's ctx passes while the query is running;
\* nothing in the call waits on ctx
ReadDeadline ==
    /\ qpc = "querying"
    /\ ~qExpired
    /\ qExpired' = TRUE
    /\ UNCHANGED <<cancelled, qpc, qArg>>
    /\ UNCHANGED <<orderVars, productVars, readVars, httpVars, catalogVars, poolVars>>

\* what the read call can get from the repository
ReadOutcomes ==
    IF qArg.method = "GetOrderById" THEN FindByIDOutcomes(qArg.arg)
    ELSE FindByProductIdOutcomes(qArg.arg)

\* lines 330-338 and 345-353: the repository answers and the call returns
ReadFindReturn(found) ==
    /\ qpc = "querying"
    /\ qpc' = "idle"
    /\ readRes' = [method |-> qArg.method, arg |-> qArg.arg, found |-> found,
                   ret |-> IF qArg.method = "GetOrderById" THEN GetOrderById(found)
                           ELSE GetOrderByProductId(found)]
    /\ UNCHANGED <<cancelled, qArg, qExpired>>
    /\ UNCHANGED <<orderVars, productVars, httpVars, catalogVars, poolVars>>

\* one CreateOrder call on a service without a Redis client, and read calls
\* whose queries take time. With one call the timeout of line 182 never wins.
DeadlineNext ==
    \/ \E c \in Posts, p \in ProductIds, t \in Prices : CreateOrder(c, p, t)
    \/ \E c \in Calls : ValidateCached(c)
    \/ \E c \in Calls : SfDo(c)
    \/ \E c \in Calls : \E out \in ClientOutcomes(args[c].productId) : ClientReturn(c, out)
    \/ \E c \in Calls : ReportValidation(c)
    \/ \E c \in Calls : RecvProduct(c)
    \/ \E c \in Calls : RecvErr(c)
    \/ \E c \in Calls : ValidationTimeout(c)
    \/ \E c \in Calls : AcquireDb(c)
    \/ \E c \in Calls, out \in {"ok", "error", "noId"} : SaveReturn(c, out)
    \/ \E c \in Calls : DispatchEvent(c)
    \/ \E c \in Calls : PublishCall(c)
    \/ \E c \in Calls, ok \in BOOLEAN : PublishReturn(c, ok)
    \/ \E p \in ProductIds : LocalExpire(p)
    \/ \E id \in ReadIds : ReadBegin("GetOrderById", id)
    \/ \E p \in ProductIds : ReadBegin("GetOrderByProductId", p)
    \/ ReadDeadline
    \/ \E found \in ReadOutcomes : ReadFindReturn(found)

\* the product that the catalog holds
ExistingProduct == 1

\* CreateOrder calls for one product that the catalog holds, on a service
\* whose DB worker pool has a slot for each of them: GetProductById finds
\* the product or fails, and the timeout of line 182 never wins
BatchNext ==
    \/ \E c \in Calls, t \in Prices : CreateOrder(c, ExistingProduct, t)
    \/ \E c \in Calls : ValidateCached(c)
    \/ \E c \in Calls : SfDo(c)
    \/ \E c \in Calls :
            \E out \in {o \in ClientOutcomes(args[c].productId) : o.kind # "absent"} :
                ClientReturn(c, out)
    \/ \E c \in Calls : ReportValidation(c)
    \/ \E c \in Calls : RecvProduct(c)
    \/ \E c \in Calls : RecvErr(c)
    \/ \E c \in Calls : ValidationTimeout(c)
    \/ \E c \in Calls : AcquireDb(c)
    \/ \E c \in Calls, out \in {"ok", "error", "noId"} : SaveReturn(c, out)
    \/ \E c \in Calls : DispatchEvent(c)
    \/ \E c \in Calls : PublishCall(c)
    \/ \E c \in Calls, ok \in BOOLEAN : PublishReturn(c, ok)
    \/ \E p \in ProductIds : LocalExpire(p)

\* the same calls, their contexts cancelled while they wait
CancelNext ==
    \/ \E c \in Calls, p \in ProductIds, t \in Prices : CreateOrder(c, p, t)
    \/ \E c \in Calls : Cancel(c)
    \/ \E c \in Calls : ValidateCached(c)
    \/ \E c \in Calls : SfDo(c)
    \/ \E c \in Calls : \E out \in ClientOutcomes(args[c].productId) : ClientReturnCtx(c, out)
    \/ \E c \in Calls : ReportValidation(c)
    \/ \E c \in Calls : RecvProduct(c)
    \/ \E c \in Calls : RecvErr(c)
    \/ \E c \in Calls : ValidationTimeout(c)
    \/ \E c \in Calls : AcquireDb(c)
    \/ \E c \in Calls : DbTimeout(c)
    \/ \E c \in Calls, out \in {"ok", "error", "noId"} : SaveReturn(c, out)
    \/ \E c \in Calls : DispatchEvent(c)
    \/ \E c \in Calls : PublishCall(c)
    \/ \E c \in Calls, ok \in BOOLEAN : PublishReturn(c, ok)
    \/ \E p \in ProductIds : LocalExpire(p)

\* ============================================================ specifications
Init == InitOrder /\ InitProduct /\ InitRead /\ InitHttp /\ InitCatalog

\* the service as NewOrderService leaves it (no SetRedisClient call)
ReadInit ==
    /\ InitService /\ redisEnabled = FALSE /\ InitStore /\ InitCtx /\ InitPool
    /\ InitProduct /\ InitRead /\ InitHttp /\ InitCatalog

Spec == Init /\ [][Next]_vars

ProductSpec == Init /\ [][ProductNext]_vars

ReadSpec == ReadInit /\ [][ReadNext]_vars

\* the instance main.go wires (SetRedisClient called), its table holding an
\* order placed earlier
HandlerInit ==
    /\ InitService /\ redisEnabled = TRUE
    /\ nextId = 2 /\ repoOrders = {EarlierOrder} /\ InitCtx /\ InitPool
    /\ InitProduct /\ InitRead /\ InitHttp /\ InitCatalog

HandlerSpec == HandlerInit /\ [][HandlerNext]_vars

\* what the Redis key product:<id> can hold when the service starts: nothing,
\* or a value left there earlier; for product 1 that value is the JSON of
\* the product, for product 2 bytes that json.Unmarshal rejects
RedisValues(pid) ==
    {[kind |-> "absent", qty |-> 0],
     IF pid = 1 THEN [kind |-> "json", qty |-> CatalogQty(pid)]
                ELSE [kind |-> "undecodable", qty |-> 0]}

\* the instance main.go wires, over a Redis that already holds values
TierInit ==
    /\ pc = [c \in Calls |-> "idle"]
    /\ args = [c \in Calls |-> NoArgs]
    /\ order = [c \in Calls |-> NoOrder]
    /\ result = [c \in Calls |-> NoResult]
    /\ gpc = [c \in Calls |-> "none"]
    /\ gres = [c \in Calls |-> [val |-> NilIface, err |-> NoErr]]
    /\ productChan = [c \in Calls |-> <<>>]
    /\ productErrChan = [c \in Calls |-> <<>>]
    /\ localCache = [p \in ProductIds |-> NoEntry]
    /\ redisKV \in [ProductIds -> UNION {RedisValues(p) : p \in ProductIds}]
    /\ \A p \in ProductIds : redisKV[p] \in RedisValues(p)
    /\ redisSets = {}
    /\ sf = [p \in ProductIds |-> FALSE]
    /\ clientInFlight = [p \in ProductIds |-> 0]
    /\ clientCalls = [p \in ProductIds |-> 0]
    /\ dbWorkers = 0
    /\ eventWorkers = 0
    /\ saveLog = [c \in Calls |-> <<>>]
    /\ epc = [c \in Calls |-> "none"]
    /\ pubLog = [c \in Calls |-> <<>>]
    /\ stats = [TotalRequests |-> 0, SuccessfulOrders |-> 0, FailedOrders |-> 0,
                CacheHits |-> 0, CacheMisses |-> 0]
    /\ redisEnabled = TRUE
    /\ InitStore /\ InitCtx /\ InitPool
    /\ InitProduct /\ InitRead /\ InitHttp /\ InitCatalog

TierSpec == TierInit /\ [][Next]_vars

CancelSpec == ReadInit /\ [][CancelNext]_vars

DeadlineSpec == ReadInit /\ [][DeadlineNext]_vars

\* a service whose DB worker pool has a slot for every call
BatchInit ==
    /\ InitService /\ redisEnabled = FALSE /\ InitStore /\ InitCtx
    /\ dbCap = NumCalls
    /\ InitProduct /\ InitRead /\ InitHttp /\ InitCatalog

BatchSpec == BatchInit /\ [][BatchNext]_vars

\* what the scheduler and the deadlines in the code guarantee of a call:
\* its goroutines run; GetProductById returns (150 ms deadline, line 254);
\* each select is left (a channel is ready, or its timer fires, or it has a
\* default case). repo.Save is called with no context and no deadline
\* (line 172), and Publisher.Publish never reads the ctx that carries the
\* 1 s deadline of line 296 (publisher.go lines 58-87): nothing in the code
\* makes either return.
CallFairness(c) ==
    /\ WF_vars(ValidateCached(c))
    /\ WF_vars(SfDo(c))
    /\ WF_vars(\E out \in ClientOutcomes(args[c].productId) : ClientReturn(c, out))
    /\ WF_vars(ReportValidation(c))
    /\ WF_vars(RecvProduct(c) \/ RecvErr(c) \/ ValidationTimeout(c))
    /\ WF_vars(AcquireDb(c) \/ DbTimeout(c))
    /\ WF_vars(DispatchEvent(c))
    /\ WF_vars(PublishCall(c))

LiveSpec == ReadInit /\ [][CreateNext]_vars /\ \A c \in Calls : CallFairness(c)

FindOneSpec == Init /\ [][FindOneNext]_vars

CatalogSpec == Init /\ [][CatalogNext]_vars

\* ================================================================= claims
\* the call has returned
Returned(c) == pc[c] = "done"
ReturnedOrder(c) == Returned(c) /\ result[c].err = NoErr
ReturnedError(c) == Returned(c) /\ result[c].err # NoErr /\ result[c].order = NoOrder

\* the resolution the call ran or joined ended with the Product Lookup Client
\* reporting the product absent (a nil *ProductInfo, no error) or failing
LookupAbsent(c) == gres[c].val.dyn = "*ProductInfo" /\ gres[c].val.null
LookupError(c) == gres[c].err # NoErr
\* the resolution gave the call a product fetched from the client
LookupFound(c) == gres[c].val.dyn = "*ProductInfo" /\ ~gres[c].val.null

\* C1: a call whose lookup found the product absent, or failed, returns an
\* error and no Order, and repo.Save is not invoked for it.
C1_AbsentProductRejected ==
    \A c \in Calls :
        (LookupAbsent(c) \/ LookupError(c)) =>
            /\ saveLog[c] = <<>>
            /\ Returned(c) => ReturnedError(c)

\* the callers executing the function given to sf.Do for the key
Resolving(pid) ==
    {c \in Calls : gpc[c] \in {"fnRedis", "fnClient"} /\ args[c].productId = pid}

\* C2: for each product identifier at most one resolution is in flight and
\* at most one GetProductById call is executing, however the CreateOrder
\* calls for it overlap.
C2_OneResolutionPerKey ==
    \A p \in ProductIds :
        /\ Cardinality(Resolving(p)) <= 1
        /\ clientInFlight[p] <= 1

\* C2 witness: one call is inside GetProductById for a product while another
\* call for the same product waits on that resolution.
C2_Witness ==
    \E c, d \in Calls :
        /\ c # d
        /\ args[c].productId = args[d].productId
        /\ gpc[c] = "fnClient"
        /\ gpc[d] = "sfWait"

\* C3 as stated: a call that returned an Order has had exactly one Publish
\* invocation, or has one still to come.
C3_ExactlyOnePublish ==
    \A c \in Calls :
        ReturnedOrder(c) =>
            \/ epc[c] = "spawned" /\ pubLog[c] = <<>>
            \/ pubLog[c] = <<OrderCreatedPayload(result[c].order)>>

\* C3 amended: a call that returned an Order has at most one Publish
\* invocation, with topic order.created and its Order's ID: the one its
\* publish goroutine makes when an event worker slot was free, none when
\* the pool was full; a call that returned no Order has none.
C3_AtMostOnePublish ==
    \A c \in Calls :
        /\ ~ReturnedOrder(c) => pubLog[c] = <<>> /\ epc[c] = "none"
        /\ ReturnedOrder(c) =>
            /\ epc[c] \in {"skipped", "spawned"} => pubLog[c] = <<>>
            /\ epc[c] \in {"publishing", "published", "failed"} =>
                /\ Len(pubLog[c]) = 1
                /\ pubLog[c][1].topic = "order.created"
                /\ pubLog[c][1].orderId = result[c].order.ID
            /\ epc[c] # "none"

\* C3 witness: one call's event was published with its Order's ID and
\* another call's event was skipped.
C3_Witness ==
    \E c, d \in Calls :
        /\ ReturnedOrder(c) /\ epc[c] = "published"
        /\ pubLog[c][1].orderId = result[c].order.ID
        /\ ReturnedOrder(d) /\ epc[d] = "skipped"

\* repo.Save was invoked for the call and assigned an identifier
SaveSucceeded(c) == saveLog[c] = <<"ok">>

\* C4: a call for a product the lookup returned with qty > 0, whose insert
\* succeeded with an assigned identifier, returns no error and an Order
\* that is pending, has a non-zero ID and carries the call's arguments.
C4_InStockOrderReturned ==
    \A c \in Calls :
        (LookupFound(c) /\ gres[c].val.qty > 0 /\ SaveSucceeded(c) /\ Returned(c)) =>
            /\ result[c].err = NoErr
            /\ result[c].order.Status = "pending"
            /\ result[c].order.ID # 0
            /\ result[c].order.ProductId = args[c].productId
            /\ result[c].order.TotalPrice = args[c].totalPrice

\* C4 witness: such a call has returned its Order.
C4_Witness ==
    \E c \in Calls :
        /\ LookupFound(c) /\ gres[c].val.qty > 0
        /\ SaveSucceeded(c)
        /\ ReturnedOrder(c)
        /\ result[c].order.ID # 0

C6_AdmissionGate ==
    [][\A c \in Calls :
        (pc[c] = "idle" /\ pc'[c] # "idle" /\ dbWorkers = dbCap) =>
            /\ pc'[c] = "done"
            /\ Contains(result'[c].err, "service overloaded")
            /\ gpc'[c] = "none"]_vars

\* C7: the publish step never blocks and never changes what the call
\* returns: with the event pool full, or with Publish failing, the persisted
\* Order has been returned with no error.
C7_PublishNeverAffectsResult ==
    \A c \in Calls :
        /\ pc[c] = "dispatch" => ENABLED DispatchEvent(c)
        /\ epc[c] \in {"skipped", "failed"} =>
            /\ ReturnedOrder(c)
            /\ result[c].order = order[c]
            /\ DbRow(result[c].order) \in repoOrders

\* C7 witness: one call's event was skipped because the pool was full and
\* another call's Publish failed; both calls returned their Orders.
C7_Witness ==
    \E c, d \in Calls :
        /\ epc[c] = "skipped" /\ ReturnedOrder(c)
        /\ epc[d] = "failed" /\ ReturnedOrder(d)

\* ---------------------------------------------------------- product service
\* the handlers that emitted order.qty_confirmed for an order of the product
Confirmed(p) ==
    {h \in Handlers : hEvent[h].productId = p /\ emitted[h] = <<QtyConfirmed(hEvent[h].orderId)>>}

\* a handler for the product is between its read and its write
Decrementing(p) == \E h \in Handlers : hEvent[h].productId = p /\ hpc[h] \in {"findOne", "save"}

\* every order's event was delivered once
NoRedelivery ==
    \A h, g \in Handlers :
        (h # g /\ hpc[h] # "idle" /\ hpc[g] # "idle") => hEvent[h].orderId # hEvent[g].orderId

\* C8: for a product created with qty q whose orders' events are each
\* delivered once, however their handlers interleave, no more than q
\* order.qty_confirmed events are emitted, and the stored qty is q less the
\* confirmed orders whenever no handler for it is running.
C8_AtomicDecrement ==
    \A p \in ProductIds :
        (productRepo[p].exists /\ NoRedelivery) =>
            /\ Cardinality(Confirmed(p)) <= initialQty[p]
            /\ ~Decrementing(p) => productRepo[p].qty = initialQty[p] - Cardinality(Confirmed(p))

\* C9: the deliveries of one order's order.created event lower the
\* product's stored qty by at most one in all.
C9_IdempotentDecrement == \A o \in OrderIds : decByOrder[o] <= 1

C11_ListingAfterCreate ==
    \A l \in Listings :
        (lpc[l] = "done" /\ lResp[l].status = 200) =>
            \A id \in lAfter[l] :
                \E i \in DOMAIN lResp[l].body : lResp[l].body[i].id = id

\* ------------------------------------------------------------ local tier
\* C12: while the local entry of a product is present and unexpired no
\* CreateOrder call invokes GetProductById for it: the calls made after one
\* call resolved the product from the client validate it from the entry.
C12_NoRefetchWhileCached ==
    [][\A p \in ProductIds :
        (localCache[p].present /\ ~localCache[p].expired) =>
            clientCalls'[p] = clientCalls[p]]_vars

\* C12 witness: two calls for one product returned their Orders, the later
\* one validated from the local entry, and GetProductById ran once for it.
C12_Witness ==
    \E c, d \in Calls :
        /\ c # d
        /\ args[c].productId = args[d].productId
        /\ LookupFound(c) /\ ReturnedOrder(c)
        /\ gres[d].val = NilIface /\ gpc[d] = "done" /\ ReturnedOrder(d)
        /\ clientCalls[args[c].productId] = 1
        /\ stats.CacheHits = 1

\* the resolution gave the call a product whose quantity is 0
LookupZeroQty(c) ==
    /\ gres[c].err = NoErr
    /\ gres[c].val.dyn \in {"*ProductInfo", "map"}
    /\ ~gres[c].val.null
    /\ gres[c].val.qty = 0

\* C13: a call whose lookup returned the product with quantity 0 is not
\* rejected for it: when its insert succeeds it returns a pending Order that
\* is persisted, and an error it returns is a timeout or a store failure.
C13_ZeroQtyNotRejected ==
    \A c \in Calls :
        LookupZeroQty(c) =>
            /\ (SaveSucceeded(c) /\ Returned(c)) =>
                /\ ReturnedOrder(c)
                /\ result[c].order.Status = "pending"
                /\ result[c].order.ID # 0
                /\ DbRow(result[c].order) \in repoOrders
            /\ ReturnedError(c) =>
                result[c].err[1] \in {"product validation timeout",
                                      "database connection timeout",
                                      "failed to save order",
                                      "order saved but ID not assigned"}

\* C13 witness: a call for a product with quantity 0 returned its pending
\* Order.
C13_Witness ==
    \E c \in Calls :
        /\ LookupZeroQty(c)
        /\ CatalogQty(args[c].productId) = 0
        /\ ReturnedOrder(c)
        /\ result[c].order.Status = "pending"
        /\ DbRow(result[c].order) \in repoOrders

\* -------------------------------------------------------------- read path
\* C14: GetOrderById called with the ID of an Order that CreateOrder
\* returned, the store holding the record, returns an Order equal to the
\* returned one in ID, ProductId, TotalPrice, Status and CreatedAt.
C14_RoundTrip ==
    \A c \in Calls :
        (/\ ReturnedOrder(c)
         /\ readRes.method = "GetOrderById"
         /\ readRes.arg = result[c].order.ID
         /\ readRes.found.err = NoErr
         /\ readRes.found.o # NoOrder) =>
            /\ readRes.ret.err = NoErr
            /\ readRes.ret.order = result[c].order

\* C15: GetOrderById returns the stored Order and no error when the store
\* has one, ErrOrderNotFound and no Order when the store reports no record,
\* the store's error unchanged and no Order when the store fails; never an
\* Order together with an error.
C15_GetOrderById ==
    readRes.method = "GetOrderById" =>
        /\ (readRes.found.err = NoErr /\ readRes.found.o # NoOrder) =>
            /\ readRes.ret = [order |-> readRes.found.o, err |-> NoErr]
            /\ readRes.ret.order \in repoOrders
            /\ readRes.ret.order.ID = readRes.arg
        /\ (readRes.found.err = NoErr /\ readRes.found.o = NoOrder) =>
            readRes.ret = [order |-> NoOrder, err |-> ErrOrderNotFound]
        /\ readRes.found.err # NoErr =>
            readRes.ret = [order |-> NoOrder, err |-> readRes.found.err]
        /\ ~(readRes.ret.order # NoOrder /\ readRes.ret.err # NoErr)

\* C15 witness: with an order persisted, a read of an identifier the store
\* does not hold returned ErrOrderNotFound.
C15_Witness ==
    /\ readRes.method = "GetOrderById"
    /\ repoOrders # {}
    /\ \A r \in repoOrders : r.ID # readRes.arg
    /\ readRes.found.err = NoErr
    /\ readRes.ret = [order |-> NoOrder, err |-> ErrOrderNotFound]

\* C16: GetOrderByProductId returns the store's list unchanged when the
\* store returns one, ErrOrderNotFound and no list when the store reports
\* none, and the store's error unchanged when the store fails.
C16_GetOrderByProductId ==
    readRes.method = "GetOrderByProductId" =>
        /\ (readRes.found.err = NoErr /\ ~readRes.found.list.isNil) =>
            /\ readRes.ret = [list |-> readRes.found.list, err |-> NoErr]
            /\ \A i \in DOMAIN readRes.ret.list.items :
                /\ readRes.ret.list.items[i] \in repoOrders
                /\ readRes.ret.list.items[i].ProductId = readRes.arg
        /\ (readRes.found.err = NoErr /\ readRes.found.list.isNil) =>
            readRes.ret = [list |-> NoList, err |-> ErrOrderNotFound]
        /\ readRes.found.err # NoErr =>
            readRes.ret = [list |-> NoList, err |-> readRes.found.err]

\* C16 witness: a product's two orders were returned, the newer one first.
C16_Witness ==
    /\ readRes.method = "GetOrderByProductId"
    /\ readRes.ret.err = NoErr
    /\ Len(readRes.ret.list.items) = 2
    /\ Before(readRes.ret.list.items[2].CreatedAt, readRes.ret.list.items[1].CreatedAt)
    /\ readRes.ret.list = readRes.found.list

\* ------------------------------------------------------------ decrementQty
\* C17: decrementQty that reads a product with qty > 0 holds it with qty
\* lowered by exactly 1 and saves and returns that; reading no product, or
\* one with qty <= 0, it returns null and saves nothing.
C17_DecrementByOne ==
    [][\A h \in Handlers :
        LET row == productRepo[hEvent[h].productId] IN
        /\ (hpc[h] = "findOne" /\ hpc'[h] = "save") =>
            /\ row.exists /\ row.qty > 0
            /\ hProduct'[h] = [exists |-> TRUE, qty |-> row.qty - 1]
            /\ productRepo' = productRepo
        /\ (hpc[h] = "findOne" /\ hpc'[h] = "done") =>
            /\ ~row.exists \/ row.qty <= 0
            /\ hProduct'[h] = NoProduct
            /\ productRepo' = productRepo
        /\ (hpc[h] = "save" /\ hpc'[h] = "done") =>
            /\ productRepo'[hEvent[h].productId] = hProduct[h]
            /\ hProduct'[h] = hProduct[h]]_vars

\* C17 witness: one handler's decrementQty saved its product with qty one
\* lower, and another's returned null on a product with qty 0.
C17_Witness ==
    \E h, g \in Handlers :
        /\ hpc[h] = "done" /\ hProduct[h].exists
        /\ hProduct[h].qty = initialQty[hEvent[h].productId] - 1
        /\ hpc[g] = "done" /\ ~hProduct[g].exists
        /\ productRepo[hEvent[g].productId].exists
        /\ productRepo[hEvent[g].productId].qty = 0

\* C18: every product's stored quantity is >= 0, however product creation
\* and the handling of order.created events interleave.
C18_QtyNonNegative ==
    \A p \in ProductIds : productRepo[p].exists => productRepo[p].qty >= 0

\* C18 witness: a product's stock was taken to 0 by two handlers that ran
\* interleaved, and the stored quantity is 0.
C18_Witness ==
    \E p \in ProductIds :
        /\ productRepo[p].exists
        /\ productRepo[p].qty = 0
        /\ initialQty[p] > 0
        /\ \A h \in Handlers : hpc[h] = "done" /\ hEvent[h].productId = p /\ hProduct[h].exists

\* ---------------------------------------------------------------- findOne
\* C19: a findOne for a product issued when the stored quantity had been
\* decremented for an order reports a quantity no higher than the stored
\* one, also when the product had been read before.
C19_ReadAfterDecrement ==
    \A r \in Readers :
        (/\ rpc[r] = "done"
         /\ rResult[r].kind = "product"
         /\ rIssue[r].exists
         /\ rIssue[r].qty < initialQty[rId[r]]) =>
            rResult[r].product.qty <= rIssue[r].qty

\* C20: a finished findOne made one cacheManager.get on product:<id>; on a
\* hit it made no other call and returned the cached product; on a miss it
\* read the repository and, the product found, stored it under product:<id>
\* with TTL 60000 and returned it, or, no product found, raised NotFound
\* with no cache write.
C20_FindOne ==
    \A r \in Readers :
        rpc[r] = "done" =>
            /\ rLog[r][1].op = "cacheManager.get"
            /\ rLog[r][1].key = <<"product:", rId[r]>>
            /\ IF rLog[r][1].val.present
               THEN /\ Len(rLog[r]) = 1
                    /\ rResult[r] = [kind |-> "product", product |-> rLog[r][1].val.product]
               ELSE /\ rLog[r][2].op = "productRepo.findOne"
                    /\ rLog[r][2].key = rId[r]
                    /\ IF rLog[r][2].val.exists
                       THEN /\ Len(rLog[r]) = 3
                            /\ rLog[r][3] = [op |-> "cacheManager.set",
                                             key |-> <<"product:", rId[r]>>,
                                             val |-> rLog[r][2].val, ttl |-> 60000]
                            /\ rResult[r] = [kind |-> "product", product |-> rLog[r][2].val]
                       ELSE /\ Len(rLog[r]) = 2
                            /\ rResult[r] = [kind |-> "NotFound", product |-> NoProduct]

\* C20 witness: one read missed the cache and stored the product, a later
\* one was served from the cache, both for the same product.
C20_Witness ==
    \E r, q \in Readers :
        /\ rId[r] = rId[q]
        /\ rpc[r] = "done" /\ Len(rLog[r]) = 3
        /\ rpc[q] = "done" /\ Len(rLog[q]) = 1
        /\ rResult[q] = rResult[r]
        /\ rResult[q].kind = "product"

\* ------------------------------------------------------------ order status
\* C21: every Order is created in status pending, and no step of the order
\* service (CreateOrder after the insert, the publish goroutine, GetOrderById,
\* GetOrderByProductId) changes a persisted Order: a row stays in the table
\* as it was stored, no two rows share an identifier, and every row, every
\* order a call built and every order a call returned is pending.
C21_StatusFrame ==
    [][/\ \A r \in repoOrders : r \in repoOrders'
       /\ \A r, q \in repoOrders' : r.ID = q.ID => r = q
       /\ \A r \in repoOrders' : r.Status = "pending"
       /\ \A c \in Calls :
            /\ order'[c] # NoOrder => order'[c].Status = "pending"
            /\ result'[c].order # NoOrder => result'[c].order.Status = "pending"]_vars

\* C21 witness: an order was persisted, returned and published, and a later
\* GetOrderById read returned its row, still pending.
C21_Witness ==
    \E c \in Calls :
        /\ ReturnedOrder(c)
        /\ epc[c] = "published"
        /\ readRes.method = "GetOrderById"
        /\ readRes.ret.err = NoErr
        /\ readRes.ret.order = DbRow(result[c].order)
        /\ readRes.ret.order.Status = "pending"

\* ------------------------------------------------------------ cancellation
\* C22: once the ctx of a call waiting for validation or for a DB worker
\* slot is cancelled, the call's next step is an error return, repo.Save is
\* not invoked for it, and it does not wait out the slot timer. (When the
\* validation timer fires relative to the lookup's own abort is a matter of
\* durations, which the steps do not carry; it is left out.)
C22_CancelAbortsWait ==
    [][\A c \in Calls :
        cancelled[c] =>
            /\ saveLog'[c] = saveLog[c]
            /\ pc'[c] # pc[c] =>
                /\ pc'[c] = "done"
                /\ result'[c].order = NoOrder
                /\ result'[c].err # NoErr
                /\ ~Contains(result'[c].err, "database connection timeout")]_vars

\* ------------------------------------------------------------ worker pools
\* C23: a call that gets no DB worker slot within the acquisition bound
\* returns an overload error that is not a persistence failure, returns no
\* Order, and repo.Save has not been invoked for it.
C23_SlotTimeoutOverloaded ==
    [][\A c \in Calls :
        (pc[c] = "acquireDb" /\ pc'[c] = "done") =>
            /\ Contains(result'[c].err, "service overloaded")
            /\ ~Contains(result'[c].err, "failed to save order")
            /\ result'[c].order = NoOrder
            /\ saveLog'[c] = <<>>]_vars

\* ------------------------------------------------------- validation deadline
\* the call returned the validation-timeout error
TimedOut(c) == Returned(c) /\ Contains(result[c].err, "product validation timeout")

\* C24: a call whose validation select ends with neither channel holding a
\* value returns the validation-timeout error and no Order; from then on
\* its result stands, and repo.Save and Publish are never invoked for it,
\* whatever its lookup delivers afterwards.
C24_ValidationTimeout ==
    [][\A c \in Calls :
        /\ (/\ pc[c] = "waitValidation" /\ pc'[c] # pc[c]
            /\ productChan[c] = <<>> /\ productErrChan[c] = <<>>) =>
                /\ pc'[c] = "done"
                /\ result'[c] = [order |-> NoOrder, err |-> <<"product validation timeout">>]
        /\ TimedOut(c) =>
                /\ pc'[c] = "done"
                /\ result'[c] = result[c]
                /\ saveLog'[c] = <<>>
                /\ epc'[c] = "none"
                /\ pubLog'[c] = <<>>]_vars

\* C24 witness: a call timed out, its lookup then found the product and
\* delivered it to productChan, and nothing was saved or published for it.
C24_Witness ==
    \E c \in Calls :
        /\ TimedOut(c)
        /\ LookupFound(c) /\ gpc[c] = "done"
        /\ productChan[c] # <<>>
        /\ saveLog[c] = <<>> /\ pubLog[c] = <<>>

\* ------------------------------------------------------------- termination
\* C25: every CreateOrder call that has been entered returns.
C25_EveryCallReturns ==
    \A c \in Calls : (pc[c] # "idle") ~> (pc[c] = "done")

\* C26: the two worker pools are isolated. Whatever the event pool holds, a
\* call waiting for a DB worker slot takes one as soon as one is free, a
\* call inside repo.Save can persist, and a call past the insert returns;
\* whatever the DB pool holds, a started publish goroutine can call Publish
\* and finish.
C26_PoolsIsolated ==
    \A c \in Calls :
        /\ (pc[c] = "acquireDb" /\ dbWorkers < dbCap) => ENABLED AcquireDb(c)
        /\ pc[c] = "saving" => ENABLED SaveReturn(c, "ok")
        /\ pc[c] = "dispatch" => ENABLED DispatchEvent(c)
        /\ epc[c] = "spawned" => ENABLED PublishCall(c)
        /\ epc[c] = "publishing" => ENABLED PublishReturn(c, TRUE)

\* C26 witness: every event worker slot is held by a publish in progress,
\* every DB worker slot by a call inside repo.Save.
C26_Witness ==
    \E c, d \in Calls :
        /\ c # d
        /\ eventWorkers = EvCap /\ epc[c] = "publishing"
        /\ dbWorkers = dbCap /\ pc[d] = "saving"

\* the calls inside repo.Save, and the publish goroutines inside Publish
Saving == {c \in Calls : pc[c] = "saving"}
Publishing == {c \in Calls : epc[c] = "publishing"}

\* C27: the repo.Save calls in progress are at most cap(dbWorkers) and the
\* Publish calls in progress at most cap(eventWorkers); each is made by a
\* holder of a slot of its pool, and a pool never holds more than its
\* capacity.
C27_PoolBounds ==
    /\ Cardinality(Saving) <= dbCap
    /\ Cardinality(Publishing) <= EvCap
    /\ Cardinality(Saving) <= dbWorkers /\ dbWorkers <= dbCap
    /\ Cardinality(Publishing) <= eventWorkers /\ eventWorkers <= EvCap

\* C27 witness: with the DB pool at capacity by a call inside repo.Save,
\* another call that passed validation is kept waiting for a slot.
C27_Witness ==
    \E c, d \in Calls :
        /\ pc[c] = "saving" /\ Cardinality(Saving) = dbCap
        /\ pc[d] = "acquireDb"

\* --------------------------------------------------------------- coalescing
\* the client reported the product absent, or failed, in the resolution
\* that returned r
ResolvedAbsent(r) == (r.val.dyn = "*ProductInfo" /\ r.val.null) \/ r.err # NoErr

\* the validation goroutine reports an error for r (lines 132-139)
FailsValidation(r) == r.err # NoErr \/ ProductMissing(r.val)

\* C28: when a resolution ends, every caller that joined it gets what the
\* caller that ran it gets, and all of them fail validation if the client
\* reported the product absent or failed, and are validated otherwise.
C28_JoinersShareOutcome ==
    [][\A c \in Calls :
        (gpc[c] \in {"fnRedis", "fnClient"} /\ gpc'[c] = "sfGot") =>
            \A w \in Waiters(args[c].productId) :
                /\ gpc'[w] = "sfGot"
                /\ gres'[w] = gres'[c]
                /\ FailsValidation(gres'[w]) <=> ResolvedAbsent(gres'[w])
                /\ FailsValidation(gres'[c]) <=> ResolvedAbsent(gres'[c])]_vars

LocalExpired(pid) == localCache[pid].present /\ localCache[pid].expired

\* C31: an expired local entry is never served. With the product's entry
\* expired, the fast-path check counts a miss and validates nothing, and the
\* caller that runs the resolution goes on to the Redis GET or GetProductById,
\* exactly as with no entry at all.
C31_ExpiredNotServed ==
    [][\A c \in Calls :
        LET pid == args[c].productId IN
        /\ (gpc[c] = "check" /\ gpc'[c] # "check"
                /\ (LocalExpired(pid) \/ ~localCache[pid].present)) =>
            /\ gpc'[c] = "sfDo"
            /\ productChan'[c] = productChan[c]
            /\ productErrChan'[c] = productErrChan[c]
            /\ stats'.CacheMisses = stats.CacheMisses + 1
            /\ stats'.CacheHits = stats.CacheHits
        /\ (gpc[c] = "sfDo" /\ gpc'[c] # "sfDo" /\ ~InFlight(pid)
                /\ (LocalExpired(pid) \/ ~localCache[pid].present)) =>
            /\ gpc'[c] = (IF redisEnabled THEN "fnRedis" ELSE "fnClient")
            /\ gres'[c] = gres[c]]_vars

\* C31 witness: a call is in GetProductById for a product whose local entry,
\* stored by an earlier call, has expired.
C31_Witness ==
    \E c, d \in Calls :
        /\ c # d
        /\ args[c].productId = args[d].productId
        /\ LookupFound(d) /\ gpc[d] = "done"
        /\ LocalExpired(args[c].productId)
        /\ gpc[c] = "fnClient"
        /\ clientCalls[args[c].productId] = 2

\* ---------------------------------------------------------- remote-tier write
\* C32: the resolution that fetched a product from the client returns it
\* with the local tier already holding it and the Redis write still to be
\* made; the end of that write, whether it succeeded, failed or hit its
\* deadline, changes nothing of any call, of any resolution or of the local
\* tier.
C32_RemoteWriteNeverFailsCaller ==
    [][/\ \A c \in Calls :
            LET pid == args[c].productId IN
            (gpc[c] = "fnClient" /\ gpc'[c] = "sfGot" /\ gres'[c].err = NoErr
                    /\ ~gres'[c].val.null) =>
                /\ gres'[c].val = PtrIface(FALSE, CatalogQty(pid))
                /\ localCache'[pid] = [present |-> TRUE, product |-> gres'[c].val,
                                       expired |-> FALSE]
                /\ redisEnabled =>
                        [pid |-> pid, qty |-> CatalogQty(pid)] \in redisSets'
       /\ redisSets' # redisSets /\ Cardinality(redisSets') < Cardinality(redisSets) =>
            UNCHANGED <<pc, result, gpc, gres, productChan, productErrChan,
                        localCache, saveLog, repoOrders, stats>>]_vars

\* C32 witness: the Redis write that followed a call's fetch has ended
\* without storing the value, and the call has returned its Order, the
\* product still in the local tier.
C32_Witness ==
    \E c \in Calls :
        /\ redisEnabled
        /\ LookupFound(c) /\ ReturnedOrder(c)
        /\ clientCalls[args[c].productId] = 1
        /\ redisSets = {}
        /\ redisKV[args[c].productId].kind = "absent"
        /\ localCache[args[c].productId].present

\* ------------------------------------------------------------ read deadlines
\* C33: a read call whose store has not answered when the deadline of its
\* ctx passes returns the deadline's error; it never returns after its
\* deadline with what the store answered.
C33_ReadWithinDeadline ==
    [][(qpc = "querying" /\ qExpired /\ qpc' # "querying") =>
            /\ readRes'.ret.err = <<"context deadline exceeded">>
            /\ readRes'.ret.err # readRes'.found.err]_vars

\* ------------------------------------------------------- concurrent creates
\* the calls whose repo.Save inserted a row
Inserted == {c \in Calls : saveLog[c] = <<"ok">>}

C35_PublishOnlyAfterPersist ==
    \A c \in Calls :
        /\ (epc[c] # "none" \/ pubLog[c] # <<>>) =>
            /\ saveLog[c] = <<"ok">>
            /\ order[c].ID # 0
            /\ DbRow(order[c]) \in repoOrders
            /\ ReturnedOrder(c)
            /\ \A i \in 1..Len(pubLog[c]) : pubLog[c][i].orderId = order[c].ID
        /\ (Returned(c) /\ result[c].err # NoErr) =>
            /\ epc[c] = "none"
            /\ pubLog[c] = <<>>
        /\ pc[c] \in {"waitValidation", "acquireDb", "saving", "dispatch"} =>
            /\ epc[c] = "none"
            /\ pubLog[c] = <<>>

\* C35 witness: one call's event was published after its Save; another
\* call's Save failed and nothing was published for it.
C35_Witness ==
    \E c, d \in Calls :
        /\ epc[c] = "published" /\ Len(pubLog[c]) = 1
        /\ saveLog[d] = <<"error">> /\ ReturnedError(d)
        /\ epc[d] = "none" /\ pubLog[d] = <<>>

\* --------------------------------------------------------------- slot release
\* the calls that hold a DB worker slot: inside repo.Save, or past it and
\* not yet returned
HoldingDb == {c \in Calls : pc[c] \in {"saving", "dispatch"}}

\* C36: the DB worker pool holds exactly one slot per call between its
\* acquisition and its return, whatever the way it returns; with no call in
\* progress the pool holds no slot.
C36_DbSlotsReleased ==
    /\ dbWorkers = Cardinality(HoldingDb)
    /\ (\A c \in Calls : pc[c] \in {"idle", "done"}) => dbWorkers = 0

\* C36 witness: every call has returned, one after a successful Save, one
\* after a failed Save, and the pool is empty.
C36_Witness ==
    /\ \A c \in Calls : Returned(c)
    /\ \E c, d \in Calls :
        /\ saveLog[c] = <<"ok">> /\ ReturnedOrder(c)
        /\ saveLog[d] \in {<<"error">>, <<"noId">>} /\ ReturnedError(d)
    /\ dbWorkers = 0

\* the publish goroutines that hold an event worker slot
HoldingEvent == {c \in Calls : epc[c] \in {"spawned", "publishing"}}

\* C37: every publish goroutine that took an event worker slot ends its
\* publish attempt and gives the slot back.
C37_EventSlotReleased ==
    \A c \in Calls : (c \in HoldingEvent) ~> (epc[c] \in {"published", "failed"})

\* --------------------------------------------------- the validation goroutine
\* lines 122-123: make(chan ..., 1)
ChanCap == 1

\* a step sends on the channel ch of call c
SendsOn(ch, c) == Len(ch'[c]) > Len(ch[c])

\* a send of call c's goroutine on ch finds room in the buffer, is the only
\* send of the step on that channel, and is the goroutine's last step
SendFindsRoom(ch, c) ==
    SendsOn(ch, c) =>
        /\ Len(ch[c]) < ChanCap
        /\ Len(ch'[c]) = Len(ch[c]) + 1
        /\ gpc[c] # "done" /\ gpc'[c] = "done"

\* C38: every send of the validation goroutine on productChan or
\* productErrChan finds room in the channel's buffer, and the goroutine
\* ends with the step that sends: it sends at most once on each channel and
\* never waits for a receiver.
C38_SendsNeverBlock ==
    [][\A c \in Calls :
        /\ SendFindsRoom(productChan, c)
        /\ SendFindsRoom(productErrChan, c)
        /\ gpc[c] = "done" => gpc'[c] = "done"]_vars

\* C38 witness: the caller returned on the validation timeout, and the
\* goroutine has since sent on both channels and ended; nobody receives.
C38_Witness ==
    \E c \in Calls :
        /\ TimedOut(c)
        /\ gpc[c] = "done"
        /\ Len(productChan[c]) = 1
        /\ Len(productErrChan[c]) = 1

\* under the fairness of LiveSpec the goroutine of every entered call ends
GoroutineEnds == \A c \in Calls : (pc[c] # "idle") ~> (gpc[c] = "done")

\* ------------------------------------------------------------------- counters
\* the calls between entry and return
InProgress == {c \in Calls : pc[c] \notin {"idle", "done"}}

\* the calls that have entered and not yet counted their outcome: a call
\* that saved its order has counted it (line 187) before it dispatches the
\* event and returns
Uncounted == {c \in Calls : pc[c] \notin {"idle", "dispatch", "done"}}

\* C39 as stated: TotalRequests = SuccessfulOrders + FailedOrders + the
\* number of calls in progress.
C39_StatsBalanceInProgress ==
    stats.TotalRequests =
        stats.SuccessfulOrders + stats.FailedOrders + Cardinality(InProgress)

\* C39: TotalRequests = SuccessfulOrders + FailedOrders + the number of calls
\* that have not yet counted their outcome; SuccessfulOrders counts the
\* calls that saved their order, FailedOrders the calls that returned an
\* error; with every call returned TotalRequests = SuccessfulOrders +
\* FailedOrders.
C39_StatsBalance ==
    /\ stats.TotalRequests =
           stats.SuccessfulOrders + stats.FailedOrders + Cardinality(Uncounted)
    /\ stats.TotalRequests = Cardinality({c \in Calls : pc[c] # "idle"})
    /\ stats.SuccessfulOrders =
           Cardinality({c \in Calls : pc[c] = "dispatch" \/ (Returned(c) /\ saveLog[c] = <<"ok">>)})
    /\ stats.FailedOrders =
           Cardinality({c \in Calls : Returned(c) /\ saveLog[c] # <<"ok">>})
    /\ InProgress = {} =>
           stats.TotalRequests = stats.SuccessfulOrders + stats.FailedOrders

\* C39 witness: every call has returned, on different exit paths (one with
\* its order, one on the validation timeout), and the counters balance.
C39_Witness ==
    /\ \A c \in Calls : Returned(c)
    /\ \E c, d \in Calls : ReturnedOrder(c) /\ saveLog[c] = <<"ok">> /\ TimedOut(d)
    /\ stats.TotalRequests = NumCalls
    /\ stats.SuccessfulOrders >= 1
    /\ stats.FailedOrders >= 1

====
